---- MODULE Spec2Model ----
(***************************************************************************)
(* Book database REST backend (backend/src/controllers/bookController.ts,  *)
(* backend/src/models/Book.ts, backend/src/utils/validation.ts).           *)
(*                                                                         *)
(* The collection is a set of documents; a document is a function from     *)
(* field names to values, an unset field being absent from its domain.     *)
(* Every handler is split at its awaits: the code between two awaits runs  *)
(* without interruption on the single Node.js thread, each database call   *)
(* is one atomic step of the database, and requests interleave only at     *)
(* the awaits.                                                             *)
(***************************************************************************)
EXTENDS Integers, Sequences, FiniteSets, TLC

\* ---------------------------------------------------------------- bounds
\* Number of createBook requests that can race for an identifier.
NReq == 2
\* Largest identifier a create may assign (caps the growth of bookId).
MaxId == 2

Slots == 1..NReq
\* The single-record handlers and the statistics are interleaved two requests
\* at a time.
Pair == {1, 2}
Ids == 1..MaxId
\* Instants the clock can show in the modelled window.
Times == {0, 1}

\* ---------------------------------------------------------------- inputs
\* Request bodies (JSON objects) sent to POST /api/books and PUT /api/books/:id.
BodyMin == [title |-> "Dune", author |-> "Herbert", pages |-> 1]
BodyFull ==
  [title |-> "Emma", author |-> "Austen", pages |-> 2, rating |-> 5,
   exclusiveShelf |-> "read", publisher |-> "Penguin", bookId |-> 2]
BodyNoTitle == [title |-> "", author |-> "Herbert", pages |-> 1]
BodyBadRating == [title |-> "Dune", author |-> "Herbert", pages |-> 1, rating |-> 6]
BodyZeroPages == [title |-> "Dune", author |-> "Herbert", pages |-> 0]
Bodies == {BodyMin, BodyFull, BodyNoTitle, BodyBadRating, BodyZeroPages}

\* The :id route parameter, a string (sequence of characters).
IdParams == {<<"1">>, <<"2">>, <<"x">>, <<"1", "x">>}

\* ------------------------------------------------------- utils/validation
ShelfEnum == {"read", "currently-reading", "to-read"}

StringOptional ==
  {"authorByLastName", "isbn", "publisher", "binding", "review", "spoiler",
   "privateNotes"}
NumberOptional == {"isbn13", "averageRating", "editionPublished", "published"}
ArrayOptional == {"additionalAuthors", "bookshelvesWithPositions"}
Defaulted ==
  {"rating", "beqValue", "bookshelves", "exclusiveShelf", "readCount",
   "ownedCopies"}
Required == {"title", "author", "pages"}
\* The keys of z.object({...}) in bookSchema; any other key is stripped.
SchemaKeys ==
  Required \cup Defaulted \cup StringOptional \cup NumberOptional
    \cup ArrayOptional \cup {"dateRead"}

SchemaDefault(f) ==
  CASE f = "rating" -> 0
    [] f = "beqValue" -> 0
    [] f = "bookshelves" -> <<>>
    [] f = "exclusiveShelf" -> "to-read"
    [] f = "readCount" -> 0
    [] f = "ownedCopies" -> 0

\* new Date(str): the day number of a date string, InvalidDate when the
\* string is not a date.
InvalidDate == -1
NewDate(str) ==
  CASE str = "2024-01-01" -> 1
    [] str = "2024-01-02" -> 2
    [] str = "2024-01-03" -> 3
    [] OTHER -> InvalidDate

\* null, as JSON carries it in the place of a number.
Null == -2
NumberKeys ==
  {"pages", "rating", "beqValue", "readCount", "ownedCopies", "isbn13",
   "averageRating", "editionPublished", "published"}
\* z.number() refuses null, with or without optional() or default().
NumbersOk(body) == \A f \in NumberKeys \cap DOMAIN body : body[f] # Null

\* bookSchema.parse throws a ZodError exactly when this is FALSE. The bodies
\* are JSON objects whose values have the types the schema names or, for a
\* number, are null, so the checks on presence, value and null decide.
BookSchemaOkMutNoRange(body) ==
  /\ "title" \in DOMAIN body /\ body.title # ""
  /\ "author" \in DOMAIN body /\ body.author # ""
  /\ "pages" \in DOMAIN body /\ body.pages >= 1
  /\ NumbersOk(body)
BookSchemaOkMutNoMin(body) ==
  /\ "title" \in DOMAIN body /\ body.title # ""
  /\ "author" \in DOMAIN body /\ body.author # ""
  /\ "pages" \in DOMAIN body
  /\ "rating" \in DOMAIN body => (body.rating >= 0 /\ body.rating <= 5)
  /\ "exclusiveShelf" \in DOMAIN body => body.exclusiveShelf \in ShelfEnum
  /\ NumbersOk(body)
BookSchemaOk(body) ==
  /\ "title" \in DOMAIN body /\ body.title # ""
  /\ "author" \in DOMAIN body /\ body.author # ""
  /\ "pages" \in DOMAIN body /\ body.pages >= 1
  /\ "rating" \in DOMAIN body => (body.rating >= 0 /\ body.rating <= 5)
  /\ "exclusiveShelf" \in DOMAIN body => body.exclusiveShelf \in ShelfEnum
  /\ NumbersOk(body)

\* The value bookSchema.parse returns for a body it accepts: the keys of the
\* schema that the body carries, the defaults for the defaulted keys it
\* omits, dateRead turned into a Date (left unset when it is the empty
\* string), and every unknown key dropped.
Transformed(body) ==
  {f \in DOMAIN body : ~(f = "dateRead" /\ body[f] = "")}
BookSchemaParseMutKeepUnknown(body) ==
  [f \in Transformed(body) \cup Defaulted |->
     IF f \in DOMAIN body
       THEN (IF f = "dateRead" THEN NewDate(body[f]) ELSE body[f])
       ELSE SchemaDefault(f)]
BookSchemaParse(body) ==
  [f \in (Transformed(body) \cap SchemaKeys) \cup Defaulted |->
     IF f \in DOMAIN body
       THEN (IF f = "dateRead" THEN NewDate(body[f]) ELSE body[f])
       ELSE SchemaDefault(f)]

\* parseInt(s): the number spelled by the longest prefix of decimal digits,
\* NaN when that prefix is empty.
Digits == {"0", "1", "2", "3", "4", "5", "6", "7", "8", "9"}
DigitVal(c) ==
  CASE c = "0" -> 0 [] c = "1" -> 1 [] c = "2" -> 2 [] c = "3" -> 3
    [] c = "4" -> 4 [] c = "5" -> 5 [] c = "6" -> 6 [] c = "7" -> 7
    [] c = "8" -> 8 [] c = "9" -> 9
NaN == -1
RECURSIVE DigitPrefixLen(_, _)
DigitPrefixLen(s, i) ==
  IF i <= Len(s) /\ s[i] \in Digits THEN DigitPrefixLen(s, i + 1) ELSE i - 1
RECURSIVE DecimalValue(_, _)
DecimalValue(s, n) ==
  IF n = 0 THEN 0 ELSE 10 * DecimalValue(s, n - 1) + DigitVal(s[n])
ParseInt(s) ==
  IF DigitPrefixLen(s, 1) = 0 THEN NaN
  ELSE DecimalValue(s, DigitPrefixLen(s, 1))
IsNaN(n) == n = NaN

\* ------------------------------------------------------------ models/Book
\* Mongoose document built by new Book(fields): array paths that are not
\* given start as empty arrays.
MongooseArrays == {"additionalAuthors", "bookshelves", "bookshelvesWithPositions"}
NewBook(fields) ==
  [f \in DOMAIN fields \cup MongooseArrays |->
     IF f \in DOMAIN fields THEN fields[f] ELSE <<>>]

\* The validators of BookSchema (run by save and, with runValidators, on the
\* paths an update sets); a Date path holding an Invalid Date fails to cast.
BookSchemaValid(doc) ==
  /\ "bookId" \in DOMAIN doc => doc.bookId # NaN
  /\ "title" \in DOMAIN doc => doc.title # ""
  /\ "author" \in DOMAIN doc => doc.author # ""
  /\ "pages" \in DOMAIN doc => doc.pages >= 0
  /\ "rating" \in DOMAIN doc => (doc.rating >= 0 /\ doc.rating <= 5)
  /\ "exclusiveShelf" \in DOMAIN doc => doc.exclusiveShelf \in ShelfEnum
  /\ "dateRead" \in DOMAIN doc => doc.dateRead # InvalidDate

\* ------------------------------------------------------------- the client
\* Query keys of the react-query cache; 'books' stands for ['books']. The
\* cache holds the keys whose data is fresh and the keys marked invalid.
KeyBooks == <<"books", "filters">>
KeyBook(id) == <<"book", id>>
KeyStats == <<"bookStats">>
KeyRecent == <<"recentBooks">>
KeyShelves == <<"bookshelves">>
BookIds == {"1", "2"}
QueryKeys ==
  {KeyBooks, KeyStats, KeyRecent, KeyShelves} \cup {KeyBook(id) : id \in BookIds}
ClientPages == {"dashboard", "list", "detail", "edit", "add", "statistics"}
\* The queries a page runs with useQuery.
QueriesOf(page, id) ==
  CASE page = "dashboard" -> {KeyStats, KeyRecent}
    [] page = "list" -> {KeyBooks, KeyShelves}
    [] page = "detail" -> {KeyBook(id)}
    [] page = "edit" -> {KeyBook(id)}
    [] page = "statistics" -> {KeyStats}
    [] OTHER -> {}

\* What can be typed into the three required inputs of BookForm.
FormTitles == {"", "Dune"}
FormAuthors == {"", "Herbert"}
FormPages == {<<>>, <<"0">>, <<"2">>}
\* useForm defaultValues: empty texts and 0 pages for a new book.
FormDefaults == [title |-> "", author |-> "", pages |-> <<"0">>]
\* valueAsNumber: the number an input holds, NaN when it is empty.
ValueAsNumber(s) ==
  IF s = <<>> \/ DigitPrefixLen(s, 1) < Len(s) THEN NaN
  ELSE DecimalValue(s, Len(s))
\* The register rules that fail: required for title, author and pages,
\* min 1 for pages.
FormErrorsMutNoMin(form) ==
  {f \in {"title", "author"} : form[f] = ""}
    \cup (IF form.pages = <<>> THEN {"pages"} ELSE {})
FormErrors(form) ==
  {f \in {"title", "author"} : form[f] = ""}
    \cup (IF form.pages = <<>> \/ ValueAsNumber(form.pages) < 1
            THEN {"pages"} ELSE {})
\* The inputs registered with valueAsNumber.
NumberInputs ==
  {"pages", "published", "editionPublished", "readCount", "ownedCopies"}
\* The data handleSubmit passes to onSubmit: the value of every input of the
\* form, as a number for the inputs registered with valueAsNumber.
FormData(form) ==
  [f \in DOMAIN form |->
     IF f \in NumberInputs THEN ValueAsNumber(form[f]) ELSE form[f]]
\* The whole form of a new book as useForm fills it: the year inputs start
\* empty (undefined), the counts at 0. The text inputs other than publisher
\* (isbn, binding, review, privateNotes) behave as publisher does.
BookFormDefaults ==
  [title |-> "", author |-> "", pages |-> <<"0">>, rating |-> 0,
   exclusiveShelf |-> "to-read", dateRead |-> "", publisher |-> "",
   published |-> <<>>, editionPublished |-> <<>>, bookshelves |-> <<>>,
   readCount |-> <<"0">>, ownedCopies |-> <<"0">>]
\* What can be typed into the other inputs of the form.
BookFormInputs ==
  {<<"published", <<>>>>, <<"published", <<"7">>>>,
   <<"editionPublished", <<>>>>, <<"editionPublished", <<"7">>>>,
   <<"readCount", <<>>>>, <<"readCount", <<"0">>>>,
   <<"dateRead", "">>, <<"dateRead", "2024-01-01">>}
\* JSON.stringify, as axios applies it to the data: NaN is written as null.
JsonBody(data) ==
  [f \in DOMAIN data |->
     IF f \in NumberKeys /\ IsNaN(data[f]) THEN Null ELSE data[f]]

FormOfBook == [title |-> "Dune", author |-> "Herbert", pages |-> <<"2">>]
NoMutation == [kind |-> "none", status |-> "idle"]
ClientInit ==
  [page |-> "dashboard", bookId |-> "1", form |-> FormDefaults, errors |-> {},
   mutation |-> NoMutation, cache |-> [fresh |-> {}, stale |-> {}]]

\* ---------------------------------------------------------------- state
VARIABLES
  books,      \* the books collection: a set of documents
  req,        \* per slot: the request in flight, its position and response
  now,        \* the clock read by new Date()
  client,     \* the browser: page shown, form, mutation, query cache
  migrations  \* MigrationManager: registered and recorded migrations, its run

vars == <<books, req, now, client, migrations>>

Idle == [kind |-> "none", pc |-> "idle"]
Done(kind, status, body) ==
  [kind |-> kind, pc |-> "done", status |-> status, body |-> body]

ServerErrorMutDetail ==
  [message |-> "Server error", error |-> "E11000 duplicate key error"]
ServerError == [message |-> "Server error"]
InvalidBookId == [message |-> "Invalid book ID"]
InvalidBookData == [message |-> "Invalid book data"]
BookNotFound == [message |-> "Book not found"]

\* Book.findOne({ bookId }): the documents with that identifier.
FindByBookIdMutAny(coll, id) == coll
FindByBookId(coll, id) == {d \in coll : d.bookId = id}
\* Book.findOne().sort({ bookId: -1 }): the identifier of the document with
\* the largest bookId; only called on a non-empty collection.
MaxBookId(coll) ==
  CHOOSE m \in {d.bookId : d \in coll} : \A d \in coll : d.bookId <= m

\* The unique index on bookId rejects an insert or update that would leave
\* two documents with one bookId.
DuplicateKeyMutNoIndex(coll, doc) == FALSE
DuplicateKey(coll, doc) == \E d \in coll : d.bookId = doc.bookId

\* A MigrationManager as constructed, on a database without migrations.
NoRun == [op |-> "none"]
MigrationsInit ==
  [registered |-> <<>>, applied |-> {}, schema |-> {}, run |-> NoRun]

Init ==
  /\ books = {}
  /\ req = [r \in Slots |-> Idle]
  /\ now = 0
  /\ client = ClientInit
  /\ migrations = MigrationsInit

\* Time passes.
Tick ==
  /\ \E t \in Times : t > now /\ now' = t
  /\ UNCHANGED <<books, req, client, migrations>>

\* The response has been sent; the slot can take the next request.
Retire(r) ==
  /\ req[r].pc = "done"
  /\ req' = [req EXCEPT ![r] = Idle]
  /\ UNCHANGED <<books, now, client, migrations>>

\* ------------------------------------------------------------- createBook
\* POST /api/books arrives: bookSchema.parse(req.body), then the query for
\* the largest identifier is issued.
CreateBegin(r, body) ==
  /\ req[r].pc = "idle"
  /\ req' = [req EXCEPT ![r] =
       IF ~BookSchemaOk(body)
         THEN Done("createBook", 400, InvalidBookData)
         ELSE [kind |-> "createBook", pc |-> "findMax", payload |-> body,
               data |-> BookSchemaParse(body)]]
  /\ UNCHANGED <<books, now, client, migrations>>

\* Book.findOne().sort({ bookId: -1 }) answers; newBookId is computed and
\* new Book({...validatedData, bookId, dateAdded}) is built, save is issued.
NewBookIdMutZero(coll) == IF coll = {} THEN 0 ELSE MaxBookId(coll) + 1
NewBookId(coll) == IF coll = {} THEN 1 ELSE MaxBookId(coll) + 1
CreateFindMax(r) ==
  /\ req[r].kind = "createBook" /\ req[r].pc = "findMax"
  /\ NewBookId(books) <= MaxId
  /\ req' = [req EXCEPT ![r] =
       [kind |-> "createBook", pc |-> "save", payload |-> req[r].payload,
        newBook |-> NewBook([bookId |-> NewBookId(books), dateAdded |-> now]
                              @@ req[r].data)]]
  /\ UNCHANGED <<books, now, client, migrations>>

\* newBook.save() answers: the document is validated and inserted, or the
\* save throws and the catch block answers 500.
CreateSave(r) ==
  /\ req[r].kind = "createBook" /\ req[r].pc = "save"
  /\ LET doc == req[r].newBook IN
       IF BookSchemaValid(doc) /\ ~DuplicateKey(books, doc)
         THEN /\ books' = books \cup {doc}
              /\ req' = [req EXCEPT ![r] =
                   Done("createBook", 201, doc) @@ [newBookId |-> doc.bookId]]
         ELSE /\ UNCHANGED books
              /\ req' = [req EXCEPT ![r] =
                   Done("createBook", 500, ServerError)
                     @@ [newBookId |-> doc.bookId]]
  /\ UNCHANGED <<now, client, migrations>>

\* ------------------------------------------------------------ getBookById
GetBegin(r, idParam) ==
  /\ req[r].pc = "idle"
  /\ req' = [req EXCEPT ![r] =
       IF IsNaN(ParseInt(idParam))
         THEN Done("getBookById", 400, InvalidBookId)
         ELSE [kind |-> "getBookById", pc |-> "findOne",
               bookId |-> ParseInt(idParam)]]
  /\ UNCHANGED <<books, now, client, migrations>>

GetFindOne(r) ==
  /\ req[r].kind = "getBookById" /\ req[r].pc = "findOne"
  /\ LET found == FindByBookId(books, req[r].bookId) IN
       req' = [req EXCEPT ![r] =
         (IF found = {}
            THEN Done("getBookById", 404, BookNotFound)
            ELSE Done("getBookById", 200, CHOOSE d \in found : TRUE))
         @@ [bookId |-> req[r].bookId]]
  /\ UNCHANGED <<books, now, client, migrations>>

\* ------------------------------------------------------------- updateBook
\* PUT /api/books/:id arrives: parseInt, then bookSchema.parse(req.body),
\* then findOneAndUpdate is issued.
UpdateBegin(r, idParam, body) ==
  /\ req[r].pc = "idle"
  /\ req' = [req EXCEPT ![r] =
       IF IsNaN(ParseInt(idParam))
         THEN Done("updateBook", 400, InvalidBookId)
       ELSE IF ~BookSchemaOk(body)
         THEN Done("updateBook", 400, InvalidBookData)
         ELSE [kind |-> "updateBook", pc |-> "findOneAndUpdate",
               bookId |-> ParseInt(idParam), payload |-> body,
               data |-> BookSchemaParse(body)]]
  /\ UNCHANGED <<books, now, client, migrations>>

\* Book.findOneAndUpdate({ bookId }, validatedData, { new: true,
\* runValidators: true }): an update document without operators is applied
\* as $set of its keys; no upsert.
ApplyUpdateMutReplace(doc, data) ==
  data @@ [bookId |-> doc.bookId, dateAdded |-> doc.dateAdded]
ApplyUpdate(doc, data) == data @@ doc

UpsertMutInsert(id, data) == {NewBook([bookId |-> id] @@ data)}
Upsert(id, data) == {}

UpdateFindOneAndUpdate(r) ==
  /\ req[r].kind = "updateBook" /\ req[r].pc = "findOneAndUpdate"
  /\ LET id == req[r].bookId
         found == FindByBookId(books, id)
     IN
       IF ~BookSchemaValid(req[r].data)
         THEN /\ UNCHANGED books
              /\ req' = [req EXCEPT ![r] =
                   Done("updateBook", 500, ServerError) @@ [bookId |-> id]]
       ELSE IF found = {}
         THEN /\ books' = books \cup Upsert(id, req[r].data)
              /\ req' = [req EXCEPT ![r] =
                   Done("updateBook", 404, BookNotFound) @@ [bookId |-> id]]
       ELSE
         LET old == CHOOSE d \in found : TRUE
             new == ApplyUpdate(old, req[r].data)
         IN
           IF DuplicateKey(books \ {old}, new)
             THEN /\ UNCHANGED books
                  /\ req' = [req EXCEPT ![r] =
                       Done("updateBook", 500, ServerError)
                         @@ [bookId |-> id]]
             ELSE /\ books' = (books \ {old}) \cup {new}
                  /\ req' = [req EXCEPT ![r] =
                       Done("updateBook", 200, new) @@ [bookId |-> id]]
  /\ UNCHANGED <<now, client, migrations>>

\* ------------------------------------------------------------- deleteBook
DeleteBegin(r, idParam) ==
  /\ req[r].pc = "idle"
  /\ req' = [req EXCEPT ![r] =
       IF IsNaN(ParseInt(idParam))
         THEN Done("deleteBook", 400, InvalidBookId)
         ELSE [kind |-> "deleteBook", pc |-> "findOneAndDelete",
               bookId |-> ParseInt(idParam)]]
  /\ UNCHANGED <<books, now, client, migrations>>

RemoveMutKeep(coll, found) == coll
Remove(coll, found) == coll \ found

DeleteFindOneAndDelete(r) ==
  /\ req[r].kind = "deleteBook" /\ req[r].pc = "findOneAndDelete"
  /\ LET id == req[r].bookId
         found == FindByBookId(books, id)
     IN
       IF found = {}
         THEN /\ UNCHANGED books
              /\ req' = [req EXCEPT ![r] =
                   Done("deleteBook", 404, BookNotFound) @@ [bookId |-> id]]
         ELSE /\ books' = Remove(books, found)
              /\ req' = [req EXCEPT ![r] =
                   Done("deleteBook", 200, [message |-> "Book removed"])
                     @@ [bookId |-> id]]
  /\ UNCHANGED <<now, client, migrations>>

\* ---------------------------------------------------------- getBookshelves
\* Book.distinct('bookshelves'): the values found in the bookshelves arrays.
Distinct(coll, f) == UNION {{d[f][i] : i \in 1..Len(d[f])} : d \in coll}

ShelvesBegin(r) ==
  /\ req[r].pc = "idle"
  /\ req' = [req EXCEPT ![r] = [kind |-> "getBookshelves", pc |-> "distinct"]]
  /\ UNCHANGED <<books, now, client, migrations>>

\* The array of values is sent; its order is not fixed, so the response is
\* kept as the set of its values.
ShelvesDistinct(r) ==
  /\ req[r].kind = "getBookshelves" /\ req[r].pc = "distinct"
  /\ req' = [req EXCEPT ![r] =
       Done("getBookshelves", 200,
            [values |-> Distinct(books, "bookshelves")])]
  /\ UNCHANGED <<books, now, client, migrations>>

\* --------------------------------------------------------- database errors
\* The database call a handler awaits throws without taking effect (the
\* connection is lost, the server rejects the operation): the catch block of
\* the handler logs the error and answers 500.
DatabaseThrowsMutSilent(r) ==
  /\ req[r].pc \notin {"idle", "done", "failed"}
  /\ req' = [req EXCEPT ![r] = [kind |-> req[r].kind, pc |-> "failed"]]
  /\ UNCHANGED <<books, now, client, migrations>>
DatabaseThrows(r) ==
  /\ req[r].pc \notin {"idle", "done"}
  /\ req' = [req EXCEPT ![r] = Done(req[r].kind, 500, ServerError)]
  /\ UNCHANGED <<books, now, client, migrations>>

\* ------------------------------------------------------------ getBookStats
\* Book.countDocuments(filter) for an equality filter on top-level fields.
CountDocuments(coll, filter) ==
  Cardinality({d \in coll :
                 \A f \in DOMAIN filter : f \in DOMAIN d /\ d[f] = filter[f]})

NoFilter == <<>>
ReadFilterMutTypo == [exclusiveShelf |-> "Read"]
ReadFilter == [exclusiveShelf |-> "read"]
ReadingFilter == [exclusiveShelf |-> "currently-reading"]
ToReadFilter == [exclusiveShelf |-> "to-read"]

RECURSIVE SumOver(_, _)
SumOver(S, f) ==
  IF S = {} THEN 0
  ELSE LET d == CHOOSE x \in S : TRUE IN d[f] + SumOver(S \ {d}, f)

\* $match { exclusiveShelf: 'read' }, $group { totalPages: { $sum: '$pages' } }:
\* no group, and so no result row, when nothing matches.
AggregateTotalPages(coll) ==
  LET m == {d \in coll : d.exclusiveShelf = "read"} IN
    IF m = {} THEN <<>> ELSE <<[totalPages |-> SumOver(m, "pages")]>>

\* $match { rating: { $gt: 0 } }, $group { avgRating: { $avg: '$rating' } }:
\* the average is kept as the pair <<sum, count>>.
AggregateAverageRatingMutAll(coll) ==
  LET m == {d \in coll : d.rating >= 0} IN
    IF m = {} THEN <<>>
    ELSE <<[avgRating |-> <<SumOver(m, "rating"), Cardinality(m)>>]>>
AggregateAverageRating(coll) ==
  LET m == {d \in coll : d.rating > 0} IN
    IF m = {} THEN <<>>
    ELSE <<[avgRating |-> <<SumOver(m, "rating"), Cardinality(m)>>]>>

\* $group by author with a count, $sort { count: -1 }, $limit 5: the rows
\* in any order that is non-increasing in count (ties are in no fixed order).
TopAuthorsLimit == 5
AuthorGroups(coll) ==
  {[author |-> a, count |-> Cardinality({d \in coll : d.author = a})] :
     a \in {d.author : d \in coll}}
AggregateTopAuthors(coll) ==
  LET g == AuthorGroups(coll)
      n == Cardinality(g)
      sorted == {s \in [1..n -> g] :
                   /\ \A i, j \in 1..n : i # j => s[i] # s[j]
                   /\ \A i \in 1..(n - 1) : s[i].count >= s[i + 1].count}
  IN {SubSeq(s, 1, IF n < TopAuthorsLimit THEN n ELSE TopAuthorsLimit) :
        s \in sorted}

StatsBegin(r) ==
  /\ req[r].pc = "idle"
  /\ req' = [req EXCEPT ![r] = [kind |-> "getBookStats", pc |-> "countTotal"]]
  /\ UNCHANGED <<books, now, client, migrations>>

StatsCountTotal(r) ==
  /\ req[r].kind = "getBookStats" /\ req[r].pc = "countTotal"
  /\ req' = [req EXCEPT ![r] =
       [pc |-> "countRead", totalBooks |-> CountDocuments(books, NoFilter)]
         @@ req[r]]
  /\ UNCHANGED <<books, now, client, migrations>>

StatsCountRead(r) ==
  /\ req[r].kind = "getBookStats" /\ req[r].pc = "countRead"
  /\ req' = [req EXCEPT ![r] =
       [pc |-> "countReading", readBooks |-> CountDocuments(books, ReadFilter)]
         @@ req[r]]
  /\ UNCHANGED <<books, now, client, migrations>>

StatsCountReading(r) ==
  /\ req[r].kind = "getBookStats" /\ req[r].pc = "countReading"
  /\ req' = [req EXCEPT ![r] =
       [pc |-> "countToRead",
        readingBooks |-> CountDocuments(books, ReadingFilter)] @@ req[r]]
  /\ UNCHANGED <<books, now, client, migrations>>

StatsCountToRead(r) ==
  /\ req[r].kind = "getBookStats" /\ req[r].pc = "countToRead"
  /\ req' = [req EXCEPT ![r] =
       [pc |-> "aggPages",
        toReadBooks |-> CountDocuments(books, ToReadFilter)] @@ req[r]]
  /\ UNCHANGED <<books, now, client, migrations>>

StatsTotalPages(r) ==
  /\ req[r].kind = "getBookStats" /\ req[r].pc = "aggPages"
  /\ req' = [req EXCEPT ![r] =
       [pc |-> "aggRating", totalPages |-> AggregateTotalPages(books)]
         @@ req[r]]
  /\ UNCHANGED <<books, now, client, migrations>>

StatsAverageRating(r) ==
  /\ req[r].kind = "getBookStats" /\ req[r].pc = "aggRating"
  /\ req' = [req EXCEPT ![r] =
       [pc |-> "aggAuthors", averageRating |-> AggregateAverageRating(books)]
         @@ req[r]]
  /\ UNCHANGED <<books, now, client, migrations>>

\* The last aggregate answers and res.json sends the statistics.
StatsTopAuthors(r) ==
  /\ req[r].kind = "getBookStats" /\ req[r].pc = "aggAuthors"
  /\ \E topAuthors \in AggregateTopAuthors(books) :
       req' = [req EXCEPT ![r] =
         Done("getBookStats", 200,
              [totalBooks |-> req[r].totalBooks,
               readBooks |-> req[r].readBooks,
               readingBooks |-> req[r].readingBooks,
               toReadBooks |-> req[r].toReadBooks,
               totalPagesRead |->
                 IF Len(req[r].totalPages) > 0
                   THEN req[r].totalPages[1].totalPages ELSE 0,
               averageRating |->
                 IF Len(req[r].averageRating) > 0
                   THEN req[r].averageRating[1].avgRating ELSE <<0, 1>>,
               topAuthors |-> topAuthors])]
  /\ UNCHANGED <<books, now, client, migrations>>

\* --------------------------------------------------------------- getBooks
\* Query strings of GET /api/books: every value is a string.
QueryDefault == <<>>
QueryPageZero == [page |-> <<"0">>]
QueryLimitWord == [limit |-> <<"x">>]
QueryBadOrder == [order |-> "up"]
QueryBadRating == [minRating |-> <<"6">>]
QueryShelf ==
  [shelf |-> "read", page |-> <<"1">>, limit |-> <<"1">>, sort |-> "pages",
   order |-> "asc"]
Queries ==
  {QueryDefault, QueryPageZero, QueryLimitWord, QueryBadOrder, QueryBadRating,
   QueryShelf}

\* Number(s) as z.coerce.number() applies it: the decimal value of a string
\* of digits, 0 for the empty string, NaN otherwise.
ToNumber(s) ==
  IF DigitPrefixLen(s, 1) = Len(s) THEN DecimalValue(s, Len(s)) ELSE NaN

DefaultPage == 1
DefaultLimit == 10
MinRating == 0
MaxRating == 5

\* filterSchema.parse throws a ZodError exactly when this is FALSE.
FilterSchemaOk(q) ==
  /\ "page" \in DOMAIN q => (~IsNaN(ToNumber(q.page)) /\ ToNumber(q.page) > 0)
  /\ "limit" \in DOMAIN q => (~IsNaN(ToNumber(q.limit)) /\ ToNumber(q.limit) > 0)
  /\ "order" \in DOMAIN q => q.order \in {"asc", "desc"}
  /\ \A f \in {"minRating", "maxRating"} \cap DOMAIN q :
       /\ ~IsNaN(ToNumber(q[f]))
       /\ ToNumber(q[f]) >= MinRating /\ ToNumber(q[f]) <= MaxRating

FilterKeys ==
  {"page", "limit", "sort", "order", "shelf", "search", "minRating",
   "maxRating", "startDate", "endDate"}
\* startDate and endDate become Dates, and stay unset when empty.
FilterSchemaParse(q) ==
  [f \in {k \in DOMAIN q \cap FilterKeys :
            ~(k \in {"startDate", "endDate"} /\ q[k] = "")}
          \cup {"page", "limit", "sort", "order"} |->
     IF f \in DOMAIN q
       THEN (IF f \in {"page", "limit", "minRating", "maxRating"}
               THEN ToNumber(q[f])
             ELSE IF f \in {"startDate", "endDate"} THEN NewDate(q[f])
             ELSE q[f])
     ELSE IF f = "page" THEN DefaultPage
     ELSE IF f = "limit" THEN DefaultLimit
     ELSE IF f = "sort" THEN "dateAdded"
     ELSE "desc"]

\* The characters of the stored texts.
Chars(str) ==
  CASE str = "Dune" -> <<"D", "u", "n", "e">>
    [] str = "Emma" -> <<"E", "m", "m", "a">>
    [] str = "Ulysses" -> <<"U", "l", "y", "s", "s", "e", "s">>
    [] str = "Persuasion" -> <<"P", "e", "r", "s", "u", "a", "s", "i", "o", "n">>
    [] str = "Herbert" -> <<"H", "e", "r", "b", "e", "r", "t">>
    [] str = "Austen" -> <<"A", "u", "s", "t", "e", "n">>
    [] str = "Joyce" -> <<"J", "o", "y", "c", "e">>
    [] str = "Penguin" -> <<"P", "e", "n", "g", "u", "i", "n">>
    [] str = "Wow." -> <<"W", "o", "w", ".">>
    [] OTHER -> <<>>
\* Case folding, as the i flag applies it.
Lower(c) ==
  CASE c = "A" -> "a" [] c = "D" -> "d" [] c = "E" -> "e" [] c = "H" -> "h"
    [] c = "J" -> "j" [] c = "M" -> "m" [] c = "N" -> "n" [] c = "P" -> "p"
    [] c = "U" -> "u" [] c = "W" -> "w"
    [] OTHER -> c

\* new RegExp(search, 'i') for patterns made of literal characters, '.', '*'
\* and parentheses. It throws a SyntaxError when a parenthesis is unmatched
\* or a '*' has nothing to repeat.
RECURSIVE ParenDepthOk(_, _, _)
ParenDepthOk(pat, i, depth) ==
  IF i > Len(pat) THEN depth = 0
  ELSE IF pat[i] = "(" THEN ParenDepthOk(pat, i + 1, depth + 1)
  ELSE IF pat[i] = ")" THEN depth > 0 /\ ParenDepthOk(pat, i + 1, depth - 1)
  ELSE ParenDepthOk(pat, i + 1, depth)
RegExpSyntaxOk(pat) ==
  /\ ParenDepthOk(pat, 1, 0)
  /\ \A i \in 1..Len(pat) :
       pat[i] = "*" => (i > 1 /\ pat[i - 1] \notin {"*", "("})
\* The atoms of a pattern without parentheses: a character and whether a '*'
\* follows it.
RECURSIVE Atoms(_, _)
Atoms(pat, i) ==
  IF i > Len(pat) THEN <<>>
  ELSE IF i < Len(pat) /\ pat[i + 1] = "*"
    THEN <<[c |-> pat[i], star |-> TRUE]>> \o Atoms(pat, i + 2)
  ELSE <<[c |-> pat[i], star |-> FALSE]>> \o Atoms(pat, i + 1)
AtomMatches(a, ch) == a.c = "." \/ Lower(a.c) = Lower(ch)
RECURSIVE MatchHere(_, _, _, _)
MatchHere(atoms, k, text, i) ==
  IF k > Len(atoms) THEN TRUE
  ELSE IF atoms[k].star
    THEN \/ MatchHere(atoms, k + 1, text, i)
         \/ /\ i <= Len(text) /\ AtomMatches(atoms[k], text[i])
            /\ MatchHere(atoms, k, text, i + 1)
  ELSE /\ i <= Len(text) /\ AtomMatches(atoms[k], text[i])
       /\ MatchHere(atoms, k + 1, text, i + 1)
\* { field: searchRegex }: the pattern matches somewhere in the text.
RegExpTest(pat, text) ==
  \E i \in 1..(Len(text) + 1) : MatchHere(Atoms(pat, 1), 1, text, i)
SearchFields == {"title", "author", "publisher", "review"}
\* filter.$or over the four text fields, set only for a non-empty search.
SearchMatches(d, p) ==
  ("search" \in DOMAIN p /\ p.search # <<>>) =>
    \E f \in SearchFields \cap DOMAIN d : RegExpTest(p.search, Chars(d[f]))

MatchesMutNoShelf(d, p) ==
  /\ "minRating" \in DOMAIN p => d.rating >= p.minRating
  /\ "maxRating" \in DOMAIN p => d.rating <= p.maxRating
  /\ "startDate" \in DOMAIN p =>
       ("dateRead" \in DOMAIN d /\ d.dateRead >= p.startDate)
  /\ "endDate" \in DOMAIN p =>
       ("dateRead" \in DOMAIN d /\ d.dateRead <= p.endDate)
  /\ SearchMatches(d, p)
MatchesMutExclusive(d, p) ==
  /\ ("shelf" \in DOMAIN p /\ p.shelf # "") => d.exclusiveShelf = p.shelf
  /\ "minRating" \in DOMAIN p => d.rating > p.minRating
  /\ "maxRating" \in DOMAIN p => d.rating < p.maxRating
  /\ "startDate" \in DOMAIN p =>
       ("dateRead" \in DOMAIN d /\ d.dateRead > p.startDate)
  /\ "endDate" \in DOMAIN p =>
       ("dateRead" \in DOMAIN d /\ d.dateRead < p.endDate)
  /\ SearchMatches(d, p)
\* The filter object built from the validated parameters, as the predicate
\* it denotes on a document.
Matches(d, p) ==
  /\ ("shelf" \in DOMAIN p /\ p.shelf # "") => d.exclusiveShelf = p.shelf
  /\ "minRating" \in DOMAIN p => d.rating >= p.minRating
  /\ "maxRating" \in DOMAIN p => d.rating <= p.maxRating
  /\ "startDate" \in DOMAIN p =>
       ("dateRead" \in DOMAIN d /\ d.dateRead >= p.startDate)
  /\ "endDate" \in DOMAIN p =>
       ("dateRead" \in DOMAIN d /\ d.dateRead <= p.endDate)
  /\ SearchMatches(d, p)
\* A filter holding an Invalid Date cannot be cast: the query throws.
FilterCastOk(p) ==
  \A f \in {"startDate", "endDate"} \cap DOMAIN p : p[f] # InvalidDate

\* A missing sort field orders as null, before every number.
SortKey(d, sort) == IF sort \in DOMAIN d THEN d[sort] ELSE Null
\* find(filter).sort({ [sort]: dir }): the matching documents in any order
\* that respects the sort key (documents with equal keys are in no fixed order).
FindSorted(coll, p) ==
  LET m == {d \in coll : Matches(d, p)}
      n == Cardinality(m)
  IN {s \in [1..n -> m] :
        /\ \A i, j \in 1..n : i # j => s[i] # s[j]
        /\ \A i \in 1..(n - 1) :
             IF p.order = "asc"
               THEN SortKey(s[i], p.sort) <= SortKey(s[i + 1], p.sort)
               ELSE SortKey(s[i], p.sort) >= SortKey(s[i + 1], p.sort)}
\* .skip(skip).limit(limit)
SkipLimit(s, skip, limit) ==
  SubSeq(s, skip + 1, IF skip + limit < Len(s) THEN skip + limit ELSE Len(s))
\* Math.ceil(total / limit)
CeilMutFloor(total, limit) == total \div limit
Ceil(total, limit) == (total + limit - 1) \div limit

InvalidQuery == [message |-> "Invalid query parameters"]

ListBegin(r, q) ==
  /\ req[r].pc = "idle"
  /\ req' = [req EXCEPT ![r] =
       IF ~FilterSchemaOk(q)
         THEN Done("getBooks", 400, InvalidQuery)
       ELSE IF /\ "search" \in DOMAIN q /\ q.search # <<>>
               /\ ~RegExpSyntaxOk(q.search)
         THEN Done("getBooks", 500, ServerError)
         ELSE [kind |-> "getBooks", pc |-> "count",
               params |-> FilterSchemaParse(q)]]
  /\ UNCHANGED <<books, now, client, migrations>>

ListCount(r) ==
  /\ req[r].kind = "getBooks" /\ req[r].pc = "count"
  /\ req' = [req EXCEPT ![r] =
       IF ~FilterCastOk(req[r].params)
         THEN Done("getBooks", 500, ServerError)
         ELSE [pc |-> "find",
               total |-> Cardinality({d \in books : Matches(d, req[r].params)})]
                @@ req[r]]
  /\ UNCHANGED <<books, now, client, migrations>>

ListFind(r) ==
  /\ req[r].kind = "getBooks" /\ req[r].pc = "find"
  /\ LET p == req[r].params IN
       \E s \in FindSorted(books, p) :
         req' = [req EXCEPT ![r] =
           Done("getBooks", 200,
                [data |-> SkipLimit(s, (p.page - 1) * p.limit, p.limit),
                 totalPages |-> Ceil(req[r].total, p.limit),
                 currentPage |-> p.page,
                 totalItems |-> req[r].total]) @@ [params |-> p]]
  /\ UNCHANGED <<books, now, client, migrations>>

\* --------------------------------------------------------- client actions
\* The user follows a link: the page is mounted with a new mutation and a
\* new form, filled from the book on the edit page. The page stays while its
\* mutation is in flight.
Navigate(page, id) ==
  /\ client.mutation.status # "loading"
  /\ client' = [client EXCEPT !.page = page, !.bookId = id,
                              !.form = IF page = "edit" THEN FormOfBook
                                       ELSE FormDefaults,
                              !.errors = {},
                              !.mutation = NoMutation]
  /\ UNCHANGED <<books, req, now, migrations>>

\* A query of the mounted page fetches and caches its data.
Fetch(k) ==
  /\ k \in QueriesOf(client.page, client.bookId)
  /\ k \notin client.cache.fresh
  /\ client' = [client EXCEPT !.cache = [fresh |-> @.fresh \cup {k},
                                         stale |-> @.stale \ {k}]]
  /\ UNCHANGED <<books, req, now, migrations>>

\* The user types into an input of BookForm.
TypeInto(f, v) ==
  /\ client.page \in {"add", "edit"}
  /\ client.form[f] # v
  /\ client' = [client EXCEPT !.form[f] = v]
  /\ UNCHANGED <<books, req, now, migrations>>

\* The submit button, disabled while isSubmitting: handleSubmit validates and
\* calls onSubmit, which starts the create or update mutation, only when no
\* rule fails.
SubmitForm ==
  /\ client.page \in {"add", "edit"}
  /\ client.mutation.status # "loading"
  /\ client' =
       IF FormErrors(client.form) # {}
         THEN [client EXCEPT !.errors = FormErrors(client.form)]
         ELSE [client EXCEPT
                 !.errors = {},
                 !.mutation =
                   [kind |-> IF client.page = "add" THEN "create" ELSE "update",
                    status |-> "loading", data |-> FormData(client.form)]]
  /\ UNCHANGED <<books, req, now, migrations>>

\* BookDetail: the user confirms the deletion.
ClickDelete ==
  /\ client.page = "detail"
  /\ client.mutation.status # "loading"
  /\ client' = [client EXCEPT
                  !.mutation = [kind |-> "delete", status |-> "loading"]]
  /\ UNCHANGED <<books, req, now, migrations>>

\* queryClient.invalidateQueries(key): every cached query whose key starts
\* with key is marked invalid.
IsPrefix(key, k) ==
  Len(key) <= Len(k) /\ \A i \in 1..Len(key) : key[i] = k[i]
InvalidateQueries(cache, key) ==
  LET hit == {k \in cache.fresh : IsPrefix(key, k)}
  IN [fresh |-> cache.fresh \ hit, stale |-> cache.stale \cup hit]

\* The request of the mutation succeeds and onSuccess runs: AddBook
\* invalidates 'books' and shows the new book, EditBook invalidates
\* ['book', bookId] and 'books' and shows the book, BookDetail invalidates
\* 'books' and shows the list.
MutationSucceeds(newId) ==
  /\ client.mutation.status = "loading"
  /\ LET kind == client.mutation.kind
         id == client.bookId
     IN client' =
          [client EXCEPT
             !.mutation.status = "success",
             !.cache =
               IF kind = "update"
                 THEN InvalidateQueries(
                        InvalidateQueries(client.cache, KeyBook(id)), <<"books">>)
                 ELSE InvalidateQueries(client.cache, <<"books">>),
             !.page = IF kind = "delete" THEN "list" ELSE "detail",
             !.bookId = IF kind = "create" THEN newId ELSE id]
  /\ UNCHANGED <<books, req, now, migrations>>

\* The request of the mutation fails: isError is shown, nothing else happens.
MutationFails ==
  /\ client.mutation.status = "loading"
  /\ client' = [client EXCEPT !.mutation.status = "error"]
  /\ UNCHANGED <<books, req, now, migrations>>

\* bookApi.createBook: the data of the create mutation is posted as JSON and
\* the request arrives at createBook.
PostCreate(r) ==
  /\ client.mutation.status = "loading" /\ client.mutation.kind = "create"
  /\ CreateBegin(r, JsonBody(client.mutation.data))

\* The identifier of a book as it appears in a route.
IdString(n) == CASE n = 1 -> "1" [] n = 2 -> "2" [] OTHER -> "3"
\* The response arrives: 201 runs onSuccess of AddBook, any other status
\* leaves the mutation in error.
CreateSettles(r) ==
  /\ client.mutation.status = "loading" /\ client.mutation.kind = "create"
  /\ req[r].kind = "createBook" /\ req[r].pc = "done"
  /\ req' = [req EXCEPT ![r] = Idle]
  /\ client' =
       IF req[r].status = 201
         THEN [client EXCEPT
                 !.mutation.status = "success",
                 !.cache = InvalidateQueries(client.cache, <<"books">>),
                 !.page = "detail",
                 !.bookId = IdString(req[r].body.bookId)]
         ELSE [client EXCEPT !.mutation.status = "error"]
  /\ UNCHANGED <<books, now, migrations>>
\* ------------------------------------------------------------- Pagination
\* Largest totalPages a listing is given.
MaxPages == 12
MaxVisiblePages == 5
MobileVisiblePages == 3
\* Entries of the list getPageNumbers returns: a page number or one of the
\* markers 'ellipsis-start' and 'ellipsis-end'.
PageEntry(n) == [page |-> n]
EllipsisStart == [ellipsis |-> "ellipsis-start"]
EllipsisEnd == [ellipsis |-> "ellipsis-end"]
Max(a, b) == IF a >= b THEN a ELSE b
Min(a, b) == IF a <= b THEN a ELSE b
PageRun(from, to) == [i \in 1..(to - from + 1) |-> PageEntry(from + i - 1)]

VisiblePages(isMobile) ==
  IF isMobile THEN MobileVisiblePages ELSE MaxVisiblePages

GetPageNumbersMutGap(currentPage, totalPages, isMobile) ==
  LET visiblePages == VisiblePages(isMobile) IN
  IF totalPages <= visiblePages THEN PageRun(1, totalPages)
  ELSE
    LET start0 == Max(currentPage - visiblePages \div 2, 1)
        endPage == Min(start0 + visiblePages - 1, totalPages)
        startPage == IF endPage - start0 + 1 < visiblePages
                       THEN Max(endPage - visiblePages + 1, 1)
                       ELSE start0
    IN (IF startPage > 1
          THEN <<PageEntry(1)>> \o <<EllipsisStart>>
          ELSE <<>>)
       \o PageRun(startPage, endPage)
       \o (IF endPage < totalPages
             THEN (IF endPage < totalPages - 1 THEN <<EllipsisEnd>> ELSE <<>>)
                    \o <<PageEntry(totalPages)>>
             ELSE <<>>)
GetPageNumbers(currentPage, totalPages, isMobile) ==
  LET visiblePages == VisiblePages(isMobile) IN
  IF totalPages <= visiblePages THEN PageRun(1, totalPages)
  ELSE
    LET start0 == Max(currentPage - visiblePages \div 2, 1)
        endPage == Min(start0 + visiblePages - 1, totalPages)
        startPage == IF endPage - start0 + 1 < visiblePages
                       THEN Max(endPage - visiblePages + 1, 1)
                       ELSE start0
    IN (IF startPage > 1
          THEN <<PageEntry(1)>>
                 \o (IF startPage > 2 THEN <<EllipsisStart>> ELSE <<>>)
          ELSE <<>>)
       \o PageRun(startPage, endPage)
       \o (IF endPage < totalPages
             THEN (IF endPage < totalPages - 1 THEN <<EllipsisEnd>> ELSE <<>>)
                    \o <<PageEntry(totalPages)>>
             ELSE <<>>)

\* The component as rendered with its props on a window of some width.
Rendered(currentPage, totalPages, isMobile) ==
  [currentPage |-> currentPage, totalPages |-> totalPages,
   isMobile |-> isMobile,
   pageNumbers |-> GetPageNumbers(currentPage, totalPages, isMobile)]

\* A click on a page button, on Previous or on Next: onPageChange is called
\* for another page of the listing, whose answer is rendered.
PaginationPageChange(page) ==
  /\ LET p == client.pagination IN
       IF page # p.currentPage /\ page >= 1 /\ page <= p.totalPages
         THEN client' = [client EXCEPT
                !.pagination = Rendered(page, p.totalPages, p.isMobile)]
         ELSE UNCHANGED client
  /\ UNCHANGED <<books, req, now, migrations>>

\* The window is resized across the mobile width and the list is rendered
\* again.
PaginationResize ==
  /\ LET p == client.pagination IN
       client' = [client EXCEPT
         !.pagination = Rendered(p.currentPage, p.totalPages, ~p.isMobile)]
  /\ UNCHANGED <<books, req, now, migrations>>
\* --------------------------------------------------------------- BookList
\* The values filters holds: numbers (from the URL and the defaults) and
\* strings (the value of an input or select).
JsNumber(n) == [num |-> n]
JsString(s) == [str |-> s]
\* Pages the Pagination buttons of the list can ask for.
ListPages == 1..3
\* The filters with nothing in the URL; a filter that is undefined is absent.
FiltersDefault ==
  [page |-> JsNumber(1), limit |-> JsNumber(10),
   sort |-> JsString("dateAdded"), order |-> JsString("desc")]
\* The inputs and selects wired to handleFilterChange, with values they take.
FilterInputs ==
  {<<"search", JsString("")>>, <<"search", JsString("Dune")>>,
   <<"shelf", JsString("")>>, <<"shelf", JsString("read")>>,
   <<"limit", JsString("25")>>, <<"minRating", JsString("3")>>}
\* The column headers wired to handleSortChange.
SortFields == {"title", "author", "dateRead", "rating"}

\* setFilters({ ...filters, page })
HandlePageChange(page) ==
  /\ client' = [client EXCEPT !.filters = [page |-> JsNumber(page)] @@ @]
  /\ UNCHANGED <<books, req, now, migrations>>

\* setFilters({ ...filters, [name]: value, page: 1 })
HandleFilterChangeMutKeepPage(name, value) ==
  /\ client' = [client EXCEPT !.filters = (name :> value) @@ @]
  /\ UNCHANGED <<books, req, now, migrations>>
HandleFilterChange(name, value) ==
  /\ client' = [client EXCEPT
       !.filters = [page |-> JsNumber(1)] @@ (name :> value) @@ @]
  /\ UNCHANGED <<books, req, now, migrations>>

\* newOrder is asc when the field is the one sorted by and the order is
\* desc, and desc otherwise; setFilters({ ...filters, sort, order, page: 1 })
HandleSortChange(field) ==
  /\ LET f == client.filters
         newOrder == IF f.sort = JsString(field) /\ f.order = JsString("desc")
                       THEN "asc" ELSE "desc"
     IN client' = [client EXCEPT
          !.filters = [sort |-> JsString(field), order |-> JsString(newOrder),
                       page |-> JsNumber(1)] @@ @]
  /\ UNCHANGED <<books, req, now, migrations>>

\* setFilters({ page: 1, limit: 10, sort: 'dateAdded', order: 'desc' });
\* setIsFilterOpen(false)
ClearFilters ==
  /\ client' = [client EXCEPT !.filters = FiltersDefault,
                              !.isFilterOpen = FALSE]
  /\ UNCHANGED <<books, req, now, migrations>>

ToggleFilter ==
  /\ client' = [client EXCEPT !.isFilterOpen = ~@]
  /\ UNCHANGED <<books, req, now, migrations>>
\* ------------------------------------------------------- MigrationManager
\* Largest version of a migration script.
MaxVersion == 3
Versions == 1..MaxVersion
\* The optional argument of migrate: no version or one version.
NoTarget == <<>>
Targets == {NoTarget} \cup {<<v>> : v \in Versions}
\* The argument of rollback.
StepCounts == 0..(MaxVersion + 1)

ElementsOf(seq) == {seq[i] : i \in 1..Len(seq)}
\* The versions of a set in ascending order: sort((a, b) => a.version -
\* b.version), and find().sort({ version: 1 }).
Ascending(set) ==
  CHOOSE s \in [1..Cardinality(set) -> set] :
    \A i, j \in 1..Cardinality(set) : i < j => s[i] < s[j]
Reverse(seq) == [i \in 1..Len(seq) |-> seq[Len(seq) + 1 - i]]

\* register(migration): push, then sort by version.
Register(v) ==
  /\ migrations.run.op = "none"
  /\ v \notin ElementsOf(migrations.registered)
  /\ migrations' = [migrations EXCEPT
       !.registered = Ascending(ElementsOf(Append(@, v)))]
  /\ UNCHANGED <<books, req, now, client>>

\* this.migrations.filter(m => !appliedVersions.has(m.version)), then
\* filter(m => m.version <= targetVersion) when a target is given.
MigrationsToApplyMutAll(registered, applied, target) ==
  LET Wanted(v) == target # NoTarget => v <= target[1]
  IN SelectSeq(registered, Wanted)
MigrationsToApply(registered, applied, target) ==
  LET Wanted(v) == v \notin applied /\ (target # NoTarget => v <= target[1])
  IN SelectSeq(registered, Wanted)

\* A run that has returned or thrown; finally has closed the connection.
Ended(run, result) == [pc |-> "ended", result |-> result] @@ run

\* migrate(targetVersion) up to the loop: the applied versions are read and
\* the migrations to apply are chosen; with none to apply it returns.
MigrateBegin(target) ==
  /\ migrations.run.op = "none"
  /\ LET plan == MigrationsToApply(migrations.registered, migrations.applied,
                                   target)
         run == [op |-> "migrate", pc |-> "up", plan |-> plan, i |-> 1,
                 target |-> target]
     IN migrations' = [migrations EXCEPT
          !.run = IF plan = <<>> THEN Ended(run, "returned") ELSE run]
  /\ UNCHANGED <<books, req, now, client>>

\* await migration.up(this.db) completes.
MigrateUp ==
  /\ migrations.run.op = "migrate" /\ migrations.run.pc = "up"
  /\ LET v == migrations.run.plan[migrations.run.i] IN
       migrations' = [migrations EXCEPT !.schema = @ \cup {v},
                                        !.run.pc = "insertOne"]
  /\ UNCHANGED <<books, req, now, client>>

\* await collection.insertOne({ version, ... }) completes; the loop goes on
\* to the next migration or the run returns.
MigrateInsertOne ==
  /\ migrations.run.op = "migrate" /\ migrations.run.pc = "insertOne"
  /\ LET run == migrations.run
         v == run.plan[run.i]
         next == [run EXCEPT !.i = @ + 1, !.pc = "up"]
     IN migrations' = [migrations EXCEPT
          !.applied = @ \cup {v},
          !.run = IF run.i = Len(run.plan) THEN Ended(next, "returned")
                  ELSE next]
  /\ UNCHANGED <<books, req, now, client>>

\* applied.slice(-steps): the last steps elements, and the whole array when
\* steps is 0, since -0 is 0.
SliceLast(seq, steps) ==
  IF steps = 0 THEN seq
  ELSE SubSeq(seq, Max(Len(seq) - steps, 0) + 1, Len(seq))

\* rollback(steps) up to the loop: the applied versions are read in
\* ascending order, the last ones are taken and reversed; with none applied
\* it returns.
RollbackBegin(steps) ==
  /\ migrations.run.op = "none"
  /\ LET applied == Ascending(migrations.applied)
         plan == Reverse(SliceLast(applied, steps))
         run == [op |-> "rollback", pc |-> "down", plan |-> plan, i |-> 1,
                 steps |-> steps]
     IN migrations' = [migrations EXCEPT
          !.run = IF applied = <<>> \/ plan = <<>>
                    THEN Ended(run, "returned")
                    ELSE run]
  /\ UNCHANGED <<books, req, now, client>>

\* this.migrations.find(...): without a script for the version the run
\* throws; otherwise await migrationScript.down(this.db) completes.
RollbackDown ==
  /\ migrations.run.op = "rollback" /\ migrations.run.pc = "down"
  /\ LET run == migrations.run
         v == run.plan[run.i]
     IN migrations' =
          IF v \notin ElementsOf(migrations.registered)
            THEN [migrations EXCEPT
                    !.run = Ended(run, "thrown")]
            ELSE [migrations EXCEPT !.schema = @ \ {v},
                                    !.run.pc = "deleteOne"]
  /\ UNCHANGED <<books, req, now, client>>

\* await collection.deleteOne({ version }) completes.
RollbackDeleteOne ==
  /\ migrations.run.op = "rollback" /\ migrations.run.pc = "deleteOne"
  /\ LET run == migrations.run
         v == run.plan[run.i]
         next == [run EXCEPT !.i = @ + 1, !.pc = "down"]
     IN migrations' = [migrations EXCEPT
          !.applied = @ \ {v},
          !.run = IF run.i = Len(run.plan)
                    THEN Ended(next, "returned")
                    ELSE next]
  /\ UNCHANGED <<books, req, now, client>>

\* The step the run awaits (up, insertOne, down, deleteOne) throws without
\* taking effect: the error is logged and thrown on, the connection closed.
RunThrows ==
  /\ migrations.run.op # "none" /\ migrations.run.pc # "ended"
  /\ migrations' = [migrations EXCEPT
       !.run = Ended(@, "thrown")]
  /\ UNCHANGED <<books, req, now, client>>

\* The caller has the outcome; the manager can run again. A new manager
\* built by loadFromDirectory may have another set of scripts.
RunReturns ==
  /\ migrations.run.op # "none" /\ migrations.run.pc = "ended"
  /\ migrations' = [migrations EXCEPT !.run = NoRun]
  /\ UNCHANGED <<books, req, now, client>>

\* A script file is removed from the migrations directory before the
\* manager is built again.
Unregister(v) ==
  /\ migrations.run.op = "none"
  /\ v \in ElementsOf(migrations.registered)
  /\ migrations' = [migrations EXCEPT
       !.registered = Ascending(ElementsOf(@) \ {v})]
  /\ UNCHANGED <<books, req, now, client>>
\* ------------------------------------------------------------ importBooks
\* JSON values of the import body: an array, null.
JsArray(seq) == [array |-> seq]
JsNull == [null |-> TRUE]
IsNull(v) == "null" \in DOMAIN v
\* Array.isArray(req.body.books); a body without the key gives undefined.
BooksIsArray(body) == "books" \in DOMAIN body /\ "array" \in DOMAIN body.books

ImportDune == [title |-> "Dune", author |-> "Herbert", pages |-> 1, bookId |-> 1]
ImportDuneTwo ==
  [title |-> "Dune", author |-> "Herbert", pages |-> 2, bookId |-> 1]
ImportArrays ==
  {<<>>, <<ImportDune>>, <<ImportDuneTwo>>, <<ImportDune, BodyFull>>,
   <<BodyNoTitle>>, <<ImportDune, BodyNoTitle>>, <<JsNull>>,
   <<BodyMin, BodyBadRating>>}
ImportBodies ==
  {[books |-> JsArray(a)] : a \in ImportArrays}
    \cup {[books |-> JsString("all")], [title |-> "Dune"]}
\* Values averagePagesService.getAverage() can return: the initial 300 or an
\* average of stored page counts kept for the hour.
AveragePagesValues == {2, 300}

\* createBookSchema.parse throws a ZodError exactly when this is FALSE.
CreateBookSchemaOk(e) ==
  /\ ~IsNull(e)
  /\ "title" \in DOMAIN e /\ e.title # ""
  /\ "author" \in DOMAIN e /\ e.author # ""
  /\ "pages" \in DOMAIN e /\ e.pages >= 1
  /\ "rating" \in DOMAIN e => (e.rating >= 0 /\ e.rating <= 5)
  /\ "exclusiveShelf" \in DOMAIN e => e.exclusiveShelf \in ShelfEnum
  /\ NumbersOk(e)
  /\ "bookId" \in DOMAIN e /\ e.bookId >= 1
\* The keys of createBookSchema that default when the element omits them.
CreateDefaulted ==
  {"rating", "bookshelves", "exclusiveShelf", "readCount", "ownedCopies"}
CreateSchemaKeys == (SchemaKeys \ {"beqValue"}) \cup {"bookId"}
CreateBookSchemaParse(e) ==
  [f \in (Transformed(e) \cap CreateSchemaKeys) \cup CreateDefaulted |->
     IF f \in DOMAIN e
       THEN (IF f = "dateRead" THEN NewDate(e[f]) ELSE e[f])
       ELSE SchemaDefault(f)]

\* The entry pushed for an element that passed: the parsed value with
\* beqValue = pages / averagePages (kept as the two numbers) and dateAdded.
ValidatedBook(e, averagePages, date) ==
  [beqValue |-> [pages |-> e.pages, averagePages |-> averagePages],
   dateAdded |-> date] @@ CreateBookSchemaParse(e)
\* The entry pushed to errors for an element that failed.
ImportError(e, i) ==
  IF "bookId" \in DOMAIN e THEN [index |-> i, bookId |-> e.bookId]
                           ELSE [index |-> i]
Indices(seq) == 1..Len(seq)
RECURSIVE ValidatedBooks(_, _, _, _)
ValidatedBooks(elems, i, averagePages, date) ==
  IF i > Len(elems) THEN <<>>
  ELSE (IF CreateBookSchemaOk(elems[i])
          THEN <<ValidatedBook(elems[i], averagePages, date)>> ELSE <<>>)
         \o ValidatedBooks(elems, i + 1, averagePages, date)
RECURSIVE ImportErrors(_, _)
ImportErrors(elems, i) ==
  IF i > Len(elems) THEN <<>>
  ELSE (IF CreateBookSchemaOk(elems[i]) THEN <<>>
          ELSE <<ImportError(elems[i], i - 1)>>)
         \o ImportErrors(elems, i + 1)

\* One updateOne { filter: { bookId }, update: { $set: book }, upsert: true }
\* applied to the collection a transaction sees, with the counts so far.
UpdateOneUpsert(view, book) ==
  LET found == FindByBookId(view.coll, book.bookId) IN
    IF found = {}
      THEN [coll |-> view.coll \cup {book}, added |-> view.added + 1,
            updated |-> view.updated]
      ELSE LET d == CHOOSE x \in found : TRUE
               set == book @@ d
           IN [coll |-> (view.coll \ {d}) \cup {set}, added |-> view.added,
               updated |-> view.updated + (IF set = d THEN 0 ELSE 1)]
RECURSIVE BulkWrite(_, _, _)
BulkWrite(view, ops, i) ==
  IF i > Len(ops) THEN view
  ELSE BulkWrite(UpdateOneUpsert(view, ops[i]), ops, i + 1)
WrittenIds(ops) == {ops[i].bookId : i \in Indices(ops)}

InvalidDataFormat == [message |-> "Invalid data format"]
ErrorImporting == [message |-> "Error importing books"]
Session(transaction, ended) == [transaction |-> transaction, ended |-> ended]
\* The response of importBooks once its finally block has called endSession,
\* with the state the transaction was in at that call.
ImportDone(status, body, transaction, submitted, validatedCount) ==
  Done("importBooks", status, body)
    @@ [session |-> Session(transaction, TRUE), submitted |-> submitted,
        validatedCount |-> validatedCount]

\* POST with an import body arrives: Book.startSession() is issued.
ImportBegin(r, body) ==
  /\ req[r].pc = "idle"
  /\ req' = [req EXCEPT ![r] =
       [kind |-> "importBooks", pc |-> "startSession", payload |-> body]]
  /\ UNCHANGED <<books, now, client, migrations>>

\* startSession rejects: the await is outside the try block, so nothing
\* catches it and no response is sent.
ImportSessionFails(r) ==
  /\ req[r].kind = "importBooks" /\ req[r].pc = "startSession"
  /\ req' = [req EXCEPT ![r] = [kind |-> "importBooks", pc |-> "unhandled"]]
  /\ UNCHANGED <<books, now, client, migrations>>

\* The session is there: startTransaction, then the check of req.body.books;
\* the 400 returns through finally, getAverage is issued otherwise.
ImportStartTransaction(r) ==
  /\ req[r].kind = "importBooks" /\ req[r].pc = "startSession"
  /\ LET body == req[r].payload IN
       req' = [req EXCEPT ![r] =
         IF ~BooksIsArray(body)
           THEN ImportDone(400, InvalidDataFormat, "active", 0, 0)
           ELSE [kind |-> "importBooks", pc |-> "getAverage",
                 session |-> Session("active", FALSE),
                 elems |-> body.books.array]]
  /\ UNCHANGED <<books, now, client, migrations>>

\* getAverage answers and the elements are validated in order. Reading
\* books[i].bookId of a null element throws inside the inner catch, which the
\* outer catch handles; when every element failed the 400 returns through
\* finally; the bulkWrite of the one chunk is issued when a book passed,
\* commitTransaction when none was submitted.
ImportValidate(r, averagePages) ==
  /\ req[r].kind = "importBooks" /\ req[r].pc = "getAverage"
  /\ LET elems == req[r].elems
         validated == ValidatedBooks(elems, 1, averagePages, now)
         errors == ImportErrors(elems, 1)
     IN req' = [req EXCEPT ![r] =
          IF \E i \in Indices(elems) : IsNull(elems[i])
            THEN ImportDone(500, ErrorImporting, "aborted", Len(elems), 0)
          ELSE IF Len(errors) > 0 /\ Len(errors) = Len(elems)
            THEN ImportDone(400, [message |-> "All books failed validation",
                                  errors |-> errors],
                            "active", Len(elems), 0)
          ELSE [kind |-> "importBooks",
                pc |-> IF validated = <<>> THEN "commit" ELSE "bulkWrite",
                session |-> Session("active", FALSE), elems |-> elems,
                validated |-> validated, errors |-> errors,
                view |-> [coll |-> books, added |-> 0, updated |-> 0]]]
  /\ UNCHANGED <<books, now, client, migrations>>

\* The documents another open transaction has written are locked: a write to
\* one of them fails with a write conflict.
WriteConflict(r) ==
  \E o \in Slots \ {r} :
    /\ req[o].kind = "importBooks" /\ req[o].pc = "commit"
    /\ WrittenIds(req[o].validated) \cap WrittenIds(req[r].validated) # {}

\* Book.bulkWrite(bulkOperations, { session }) answers: the upserts are
\* applied inside the transaction and counted.
ImportBulkWrite(r) ==
  /\ req[r].kind = "importBooks" /\ req[r].pc = "bulkWrite"
  /\ ~WriteConflict(r)
  /\ req' = [req EXCEPT ![r] =
       [pc |-> "commit",
        view |-> BulkWrite([coll |-> books, added |-> 0, updated |-> 0],
                           req[r].validated, 1)] @@ req[r]]
  /\ UNCHANGED <<books, now, client, migrations>>

\* commitTransaction answers: the writes of the transaction become visible,
\* 200 is sent with the results, finally ends the session.
ImportResults(r) ==
  [added |-> req[r].view.added, updated |-> req[r].view.updated,
   failed |-> Len(req[r].errors)]
    @@ (IF req[r].errors # <<>> THEN [errors |-> req[r].errors] ELSE <<>>)
ImportCommit(r) ==
  /\ req[r].kind = "importBooks" /\ req[r].pc = "commit"
  /\ LET written == WrittenIds(req[r].validated) IN
       books' = {d \in books : d.bookId \notin written}
                  \cup {d \in req[r].view.coll : d.bookId \in written}
  /\ req' = [req EXCEPT ![r] =
       ImportDone(200, [message |-> "Processed books successfully",
                        processed |-> Len(req[r].validated),
                        results |-> ImportResults(r)],
                  "committed", Len(req[r].elems), Len(req[r].validated))]
  /\ UNCHANGED <<now, client, migrations>>

\* bulkWrite or commitTransaction throws: the catch block aborts the
\* transaction, which drops its writes, and answers 500; finally ends the
\* session.
ImportThrows(r) ==
  /\ req[r].kind = "importBooks" /\ req[r].pc \in {"bulkWrite", "commit"}
  /\ req' = [req EXCEPT ![r] =
       ImportDone(500, ErrorImporting, "aborted", Len(req[r].elems),
                  Len(req[r].validated))]
  /\ UNCHANGED <<books, now, client, migrations>>
\* ------------------------------------------------------ stored collections
\* Books as createBook stores them: new Book({...validatedData, bookId,
\* dateAdded}) for a payload the schema accepts.
Created(body, id, t) ==
  NewBook([bookId |-> id, dateAdded |-> t] @@ BookSchemaParse(body))

\* A library of four books: two added at the same instant, two with the same
\* page count, two by one author, one never rated and never read.
LibDune == Created(BodyMin, 1, 0)
LibEmma ==
  Created([title |-> "Emma", author |-> "Austen", pages |-> 2, rating |-> 5,
           exclusiveShelf |-> "read", publisher |-> "Penguin",
           dateRead |-> "2024-01-01"], 2, 0)
LibUlysses ==
  Created([title |-> "Ulysses", author |-> "Joyce", pages |-> 2, rating |-> 3,
           exclusiveShelf |-> "read", dateRead |-> "2024-01-03"], 3, 1)
LibPersuasion ==
  Created([title |-> "Persuasion", author |-> "Austen", pages |-> 3,
           rating |-> 5, exclusiveShelf |-> "currently-reading",
           dateRead |-> "2024-01-02", review |-> "Wow."], 4, 1)
Library == {LibDune, LibEmma, LibUlysses, LibPersuasion}
\* Any subset of the library is left by creating its books in turn and
\* deleting some.
Collections == SUBSET Library

\* Three more books, so that six authors are stored: one read and rated,
\* one read and never rated, one to read.
LibDracula ==
  Created([title |-> "Dracula", author |-> "Stoker", pages |-> 4, rating |-> 4,
           exclusiveShelf |-> "read"], 5, 1)
LibHamlet ==
  Created([title |-> "Hamlet", author |-> "Shakespeare", pages |-> 5,
           exclusiveShelf |-> "read"], 6, 1)
LibFaust == Created([title |-> "Faust", author |-> "Goethe", pages |-> 6], 7, 1)
AuthorCollections == SUBSET (Library \cup {LibDracula, LibHamlet, LibFaust})

\* Query strings that filter by shelf, rating range and date-read range.
FilterQueries ==
  {[shelf |-> "read"], [shelf |-> "read", minRating |-> <<"5">>],
   [shelf |-> "to-read", maxRating |-> <<"3">>], [shelf |-> ""],
   [minRating |-> <<"0">>], [minRating |-> <<"3">>], [maxRating |-> <<"3">>],
   [maxRating |-> <<"0">>], [minRating |-> <<"3">>, maxRating |-> <<"5">>],
   [startDate |-> "2024-01-02"], [endDate |-> "2024-01-02"],
   [startDate |-> "2024-01-01", endDate |-> "2024-01-02"],
   [startDate |-> "", endDate |-> "2024-01-01"], [startDate |-> "soon"]}

\* Query strings that search: the search string is a sequence of characters.
SearchQueries ==
  {[search |-> <<"u", "N">>], [search |-> <<"E", "M", "M">>],
   [search |-> <<".">>], [search |-> <<"(">>], [search |-> <<"*">>],
   [search |-> <<"s", "*", "e">>], [search |-> <<>>]}

\* Query strings that page through a listing sorted by page count.
PageQueries ==
  {[page |-> pg, limit |-> lim, sort |-> "pages", order |-> o] :
     pg \in {<<"1">>, <<"2">>, <<"3">>}, lim \in {<<"1">>, <<"2">>},
     o \in {"asc", "desc"}}

\* --------------------------------------------------------- specifications
\* The single-record handlers, interleaved.
Next ==
  \/ Tick
  \/ \E r \in Pair : Retire(r)
  \/ \E r \in Pair, body \in Bodies : CreateBegin(r, body)
  \/ \E r \in Pair : CreateFindMax(r)
  \/ \E r \in Pair : CreateSave(r)
  \/ \E r \in Pair, idParam \in IdParams : GetBegin(r, idParam)
  \/ \E r \in Pair : GetFindOne(r)
  \/ \E r \in Pair, idParam \in IdParams, body \in Bodies :
       UpdateBegin(r, idParam, body)
  \/ \E r \in Pair : UpdateFindOneAndUpdate(r)
  \/ \E r \in Pair, idParam \in IdParams : DeleteBegin(r, idParam)
  \/ \E r \in Pair : DeleteFindOneAndDelete(r)

Spec == Init /\ [][Next]_vars

\* Concurrent createBook requests only.
NextCreate ==
  \/ Tick
  \/ \E r \in Slots : Retire(r)
  \/ \E r \in Slots, body \in Bodies : CreateBegin(r, body)
  \/ \E r \in Slots : CreateFindMax(r)
  \/ \E r \in Slots : CreateSave(r)

SpecCreate == Init /\ [][NextCreate]_vars

\* One getBookStats call at a time, interleaved with the handlers that write
\* running in the other slots.
StatsSlots == {1}
WriterSlots == Pair \ StatsSlots
\* The writers create and delete any book and update the first one, with a
\* body that leaves the shelf at its default, one that sets it to read and one
\* that is refused.
StatsBodies == {BodyMin, BodyFull, BodyNoTitle}
StatsIdParams == {<<"1">>, <<"x">>}
NextStats ==
  \/ \E r \in Pair : Retire(r)
  \/ \E r \in WriterSlots, body \in StatsBodies : CreateBegin(r, body)
  \/ \E r \in WriterSlots : CreateFindMax(r)
  \/ \E r \in WriterSlots : CreateSave(r)
  \/ \E r \in WriterSlots, idParam \in StatsIdParams, body \in StatsBodies :
       UpdateBegin(r, idParam, body)
  \/ \E r \in WriterSlots : UpdateFindOneAndUpdate(r)
  \/ \E r \in WriterSlots, idParam \in IdParams : DeleteBegin(r, idParam)
  \/ \E r \in WriterSlots : DeleteFindOneAndDelete(r)
  \/ \E r \in StatsSlots : StatsBegin(r)
  \/ \E r \in StatsSlots : StatsCountTotal(r)
  \/ \E r \in StatsSlots : StatsCountRead(r)
  \/ \E r \in StatsSlots : StatsCountReading(r)
  \/ \E r \in StatsSlots : StatsCountToRead(r)
  \/ \E r \in StatsSlots : StatsTotalPages(r)
  \/ \E r \in StatsSlots : StatsAverageRating(r)
  \/ \E r \in StatsSlots : StatsTopAuthors(r)

SpecStats == Init /\ [][NextStats]_vars

\* Every route of the API, one request at a time.
NextApi ==
  \E r \in {1} :
    \/ Retire(r)
    \/ \E body \in Bodies : CreateBegin(r, body)
    \/ CreateFindMax(r)
    \/ CreateSave(r)
    \/ \E idParam \in IdParams : GetBegin(r, idParam)
    \/ GetFindOne(r)
    \/ \E idParam \in IdParams, body \in Bodies : UpdateBegin(r, idParam, body)
    \/ UpdateFindOneAndUpdate(r)
    \/ \E idParam \in IdParams : DeleteBegin(r, idParam)
    \/ DeleteFindOneAndDelete(r)
    \/ StatsBegin(r)
    \/ StatsCountTotal(r)
    \/ StatsCountRead(r)
    \/ StatsCountReading(r)
    \/ StatsCountToRead(r)
    \/ StatsTotalPages(r)
    \/ StatsAverageRating(r)
    \/ StatsTopAuthors(r)
    \/ \E q \in Queries : ListBegin(r, q)
    \/ ListCount(r)
    \/ ListFind(r)

SpecApi == Init /\ [][NextApi]_vars

\* Listings over a stored collection: getBooks requests in both slots, with
\* deleteBook requests interleaved in the second.
InitList ==
  /\ books \in Collections
  /\ req = [r \in Slots |-> Idle]
  /\ now = 1
  /\ client = ClientInit
  /\ migrations = MigrationsInit
ListQueries == Queries \cup PageQueries \cup FilterQueries \cup SearchQueries
NextList ==
  \/ \E r \in Pair : Retire(r)
  \/ \E r \in Pair, q \in ListQueries : ListBegin(r, q)
  \/ \E r \in Pair : ListCount(r)
  \/ \E r \in Pair : ListFind(r)
  \/ \E r \in {2}, idParam \in IdParams : DeleteBegin(r, idParam)
  \/ \E r \in {2} : DeleteFindOneAndDelete(r)

SpecList == InitList /\ [][NextList]_vars

\* Statistics over a stored collection that no request changes.
InitAgg ==
  /\ books \in AuthorCollections
  /\ req = [r \in Slots |-> Idle]
  /\ now = 1
  /\ client = ClientInit
  /\ migrations = MigrationsInit
NextAgg ==
  \E r \in StatsSlots :
    \/ Retire(r)
    \/ StatsBegin(r)
    \/ StatsCountTotal(r)
    \/ StatsCountRead(r)
    \/ StatsCountReading(r)
    \/ StatsCountToRead(r)
    \/ StatsTotalPages(r)
    \/ StatsAverageRating(r)
    \/ StatsTopAuthors(r)

SpecAgg == InitAgg /\ [][NextAgg]_vars

\* Every route of the API, one request at a time, over a database whose
\* calls can throw.
NextFault ==
  \/ NextApi
  \/ \E r \in {1} : ShelvesBegin(r)
  \/ \E r \in {1} : ShelvesDistinct(r)
  \/ \E r \in {1} : DatabaseThrows(r)

SpecFault == Init /\ [][NextFault]_vars

\* The step a handler takes when the database call it awaits answers.
DatabaseAnswers(r) ==
  \/ CreateFindMax(r) \/ CreateSave(r)
  \/ GetFindOne(r)
  \/ UpdateFindOneAndUpdate(r)
  \/ DeleteFindOneAndDelete(r)
  \/ ShelvesDistinct(r)
  \/ StatsCountTotal(r) \/ StatsCountRead(r) \/ StatsCountReading(r)
  \/ StatsCountToRead(r) \/ StatsTotalPages(r) \/ StatsAverageRating(r)
  \/ StatsTopAuthors(r)
  \/ ListCount(r) \/ ListFind(r)

\* Every route of the API over a database whose calls either answer or
\* throw: an awaited call does not stay pending for ever.
SpecRespond ==
  Init /\ [][NextFault]_vars /\ WF_vars(DatabaseAnswers(1) \/ DatabaseThrows(1))
\* The Pagination component under a listing of more than one page.
InitPagination ==
  /\ books = {}
  /\ req = [r \in Slots |-> Idle]
  /\ now = 0
  /\ client \in {[page |-> "list", pagination |-> Rendered(1, t, m)] :
                   t \in 2..MaxPages, m \in BOOLEAN}
  /\ migrations = MigrationsInit
NextPagination ==
  \/ \E page \in 0..(MaxPages + 1) : PaginationPageChange(page)
  \/ PaginationResize

SpecPagination == InitPagination /\ [][NextPagination]_vars
\* The list page, opened on a URL that names a page and an order or nothing.
InitBookList ==
  /\ books = {}
  /\ req = [r \in Slots |-> Idle]
  /\ now = 0
  /\ client \in {[page |-> "list", isFilterOpen |-> FALSE,
                  filters |-> [page |-> JsNumber(pg), order |-> JsString(o)]
                                @@ FiltersDefault] :
                   pg \in ListPages, o \in {"asc", "desc"}}
  /\ migrations = MigrationsInit
NextBookList ==
  \/ \E page \in ListPages : HandlePageChange(page)
  \/ \E inp \in FilterInputs : HandleFilterChange(inp[1], inp[2])
  \/ \E field \in SortFields : HandleSortChange(field)
  \/ ClearFilters
  \/ ToggleFilter

SpecBookList == InitBookList /\ [][NextBookList]_vars
\* The page of a new book, from the form to the answer of createBook.
InitSubmit ==
  /\ books = {}
  /\ req = [r \in Slots |-> Idle]
  /\ now = 0
  /\ client = [ClientInit EXCEPT !.page = "add", !.form = BookFormDefaults]
  /\ migrations = MigrationsInit
NextSubmit ==
  \/ \E v \in FormTitles : TypeInto("title", v)
  \/ \E v \in FormAuthors : TypeInto("author", v)
  \/ \E v \in FormPages : TypeInto("pages", v)
  \/ \E inp \in BookFormInputs : TypeInto(inp[1], inp[2])
  \/ SubmitForm
  \/ PostCreate(1)
  \/ CreateFindMax(1)
  \/ CreateSave(1)
  \/ CreateSettles(1)

SpecSubmit == InitSubmit /\ [][NextSubmit]_vars
\* The MigrationManager: scripts are registered, migrate and rollback run
\* one at a time.
NextMigrate ==
  \/ \E v \in Versions : Register(v)
  \/ \E v \in Versions : Unregister(v)
  \/ \E target \in Targets : MigrateBegin(target)
  \/ MigrateUp
  \/ MigrateInsertOne
  \/ \E steps \in StepCounts : RollbackBegin(steps)
  \/ RollbackDown
  \/ RollbackDeleteOne
  \/ RunThrows
  \/ RunReturns

SpecMigrate == Init /\ [][NextMigrate]_vars
\* The transactional bulk import, two requests at a time.
NextImport ==
  \/ \E r \in Pair :
       \/ \E body \in ImportBodies : ImportBegin(r, body)
       \/ ImportSessionFails(r)
       \/ ImportStartTransaction(r)
       \/ \E a \in AveragePagesValues : ImportValidate(r, a)
       \/ ImportBulkWrite(r)
       \/ ImportCommit(r)
       \/ ImportThrows(r)
       \/ Retire(r)
SpecImport == Init /\ [][NextImport]_vars
\* The browser: pages, forms, mutations and the query cache.
NextClient ==
  \/ \E page \in ClientPages, id \in BookIds : Navigate(page, id)
  \/ \E k \in QueryKeys : Fetch(k)
  \/ \E v \in FormTitles : TypeInto("title", v)
  \/ \E v \in FormAuthors : TypeInto("author", v)
  \/ \E v \in FormPages : TypeInto("pages", v)
  \/ SubmitForm
  \/ ClickDelete
  \/ \E newId \in BookIds : MutationSucceeds(newId)
  \/ MutationFails

SpecClient == Init /\ [][NextClient]_vars

TypeOK ==
  /\ \A d \in books : d.bookId \in Ids
  /\ now \in Times

\* ------------------------------------------------------------- properties
IsDone(r, kind) == req[r].kind = kind /\ req[r].pc = "done"
\* The step in which the database call at position pc of request r answers.
Answers(r, kind, pc) ==
  req[r].kind = kind /\ req[r].pc = pc /\ req'[r].pc # pc

\* C1: in every reachable state of interleaved createBook, updateBook and
\* deleteBook requests no two stored books have the same bookId.
C1_UniqueBookId ==
  \A d1, d2 \in books : d1.bookId = d2.bookId => d1 = d2
\* Two books are stored and a createBook that lost the race for an identifier
\* was rejected.
C1_Witness ==
  /\ Cardinality(books) = 2
  /\ \E r \in Slots : IsDone(r, "createBook") /\ req[r].status = 500

\* C2: with createBook requests only, two requests that computed the same new
\* bookId (both read the maximum before either saved) never both answer 201:
\* a request answers 201 only with its book stored, and one that answers 500
\* failed on the unique index, its identifier being held by a stored book.
C2_CreateRace ==
  /\ \A r1, r2 \in Slots :
       (/\ r1 # r2
        /\ IsDone(r1, "createBook") /\ req[r1].status # 400
        /\ IsDone(r2, "createBook") /\ req[r2].status # 400
        /\ req[r1].newBookId = req[r2].newBookId)
       => ~(req[r1].status = 201 /\ req[r2].status = 201)
  /\ \A r \in Slots :
       IsDone(r, "createBook") =>
         /\ req[r].status \in {201, 400, 500}
         /\ req[r].status = 201 => req[r].body \in books
         /\ req[r].status = 500 =>
              \E d \in books : d.bookId = req[r].newBookId
\* Both requests of a race have answered: one 201, the other 500.
C2_Witness ==
  \E r1, r2 \in Slots :
    /\ IsDone(r1, "createBook") /\ req[r1].status = 201
    /\ IsDone(r2, "createBook") /\ req[r2].status = 500
    /\ req[r1].newBookId = req[r2].newBookId

\* The identifiers of the stored books.
StoredIds(coll) == {d.bookId : d \in coll}

\* C3: create/get round trip. A createBook that answers 201 has stored the
\* book it returns, with the assigned bookId and dateAdded; a stored book
\* changes or disappears only in the database step of an updateBook or
\* deleteBook on its identifier; and a getBookById whose lookup finds a
\* stored book answers 200 with exactly that book. So a fetch that follows
\* the create, with no update or delete of that identifier in between,
\* returns the fields the create returned.
C3_CreateGetRoundTrip ==
  [][/\ \A r \in Slots :
          (Answers(r, "createBook", "save") /\ req'[r].status = 201)
          => /\ req'[r].body \in books'
             /\ {"bookId", "dateAdded"} \cup DOMAIN req[r].newBook
                  \subseteq DOMAIN req'[r].body
             /\ req'[r].body = req[r].newBook
     /\ \A d \in books :
          d \notin books' =>
            \E q \in Slots :
              /\ \/ Answers(q, "updateBook", "findOneAndUpdate")
                 \/ Answers(q, "deleteBook", "findOneAndDelete")
              /\ req[q].bookId = d.bookId
     /\ \A r \in Slots :
          Answers(r, "getBookById", "findOne") =>
            \A d \in books :
              d.bookId = req[r].bookId
                => req'[r].status = 200 /\ req'[r].body = d]_vars
\* A create answered 201 with a book and a fetch of its identifier answered
\* 200 with the same fields.
C3_Witness ==
  \E r1, r2 \in Slots :
    /\ IsDone(r1, "createBook") /\ req[r1].status = 201
    /\ IsDone(r2, "getBookById") /\ req[r2].status = 200
    /\ req[r2].bookId = req[r1].body.bookId
    /\ req[r2].body = req[r1].body
    /\ req[r1].body \in books

\* C4: a successful updateBook(id, payload) leaves the updated record with
\* bookId = id and changes no other record, whatever bookId the payload has.
C4_UpdateKeepsId ==
  [][\A r \in Slots :
       (Answers(r, "updateBook", "findOneAndUpdate") /\ req'[r].status = 200)
       => /\ req'[r].body.bookId = req[r].bookId
          /\ req'[r].body \in books'
          /\ {d \in books' : d.bookId # req[r].bookId}
               = {d \in books : d.bookId # req[r].bookId}
          /\ {d.bookId : d \in books'} = {d.bookId : d \in books}]_vars
\* Book 1 was updated with the payload that carries bookId 2.
C4_Witness ==
  \E r \in Slots :
    /\ IsDone(r, "updateBook") /\ req[r].status = 200
    /\ req[r].bookId = 1 /\ req[r].body.bookId = 1
    /\ req[r].body.title = BodyFull.title
    /\ BodyFull.bookId # 1

\* The stored record an update request is about to change.
Stored(r) == CHOOSE d \in books : d.bookId = req[r].bookId

\* C5 as stated: after a successful updateBook every field of the stored
\* record that the payload does not mention keeps its value.
C5_UnmentionedKept ==
  [][\A r \in Slots :
       (Answers(r, "updateBook", "findOneAndUpdate") /\ req'[r].status = 200)
       => \A f \in DOMAIN Stored(r) \ DOMAIN req[r].payload :
            f \in DOMAIN req'[r].body /\ req'[r].body[f] = Stored(r)[f]]_vars
C7_DeleteThenGet ==
  [][/\ \A r \in Slots :
          (Answers(r, "deleteBook", "findOneAndDelete") /\ req'[r].status = 200)
          => req[r].bookId \in StoredIds(books) \ StoredIds(books')
     /\ \A i \in StoredIds(books') \ StoredIds(books) :
          \E q \in Slots :
            Answers(q, "createBook", "save") /\ req[q].newBook.bookId = i
     /\ \A r \in Slots :
          (/\ Answers(r, "getBookById", "findOne")
           /\ req[r].bookId \notin StoredIds(books))
          => req'[r].status = 404]_vars
\* A delete answered 200 and a fetch of the same identifier answered 404.
C7_Witness ==
  \E r1, r2 \in Slots :
    /\ IsDone(r1, "deleteBook") /\ req[r1].status = 200
    /\ IsDone(r2, "getBookById") /\ req[r2].status = 404
    /\ req[r2].bookId = req[r1].bookId
    /\ req[r1].bookId \notin StoredIds(books)

\* C8: getBookById, updateBook with a valid payload and deleteBook on an
\* identifier that no stored book has answer 404 and leave the collection
\* as it was.
C8_MissingIs404 ==
  [][\A r \in Slots :
       (/\ \/ Answers(r, "getBookById", "findOne")
           \/ Answers(r, "updateBook", "findOneAndUpdate")
           \/ Answers(r, "deleteBook", "findOneAndDelete")
        /\ \A d \in books : d.bookId # req[r].bookId)
       => req'[r].status = 404 /\ books' = books]_vars
\* An update of a missing record was answered while another book is stored.
C8_Witness ==
  \E r \in Slots :
    /\ IsDone(r, "updateBook") /\ req[r].status = 404
    /\ books # {}
    /\ \A d \in books : d.bookId # req[r].bookId

\* Inputs that validation has to reject.
InvalidBodies == {BodyNoTitle, BodyBadRating, BodyZeroPages}
InvalidQueries == {QueryPageZero, QueryLimitWord, QueryBadOrder, QueryBadRating}
InvalidIdParams == {<<"x">>}

\* C9: a request that fails validation (a body bookSchema rejects, a query
\* filterSchema rejects, an identifier parseInt turns into NaN) is answered
\* 400 at once, the collection is unchanged and the next identifier a create
\* would assign is the same.
C9_Rejects(r) ==
  \/ \E body \in InvalidBodies : CreateBegin(r, body)
  \/ \E idParam \in IdParams, body \in InvalidBodies :
       UpdateBegin(r, idParam, body)
  \/ \E q \in InvalidQueries : ListBegin(r, q)
  \/ \E idParam \in InvalidIdParams :
       \/ GetBegin(r, idParam)
       \/ DeleteBegin(r, idParam)
       \/ \E body \in Bodies : UpdateBegin(r, idParam, body)
C9_ValidationIs400 ==
  [][\A r \in Slots :
       C9_Rejects(r) =>
         /\ req'[r].pc = "done" /\ req'[r].status = 400
         /\ books' = books
         /\ NewBookId(books') = NewBookId(books)]_vars
\* A create with an invalid body was answered 400 while a book is stored.
C9_Witness ==
  \E r \in Slots :
    /\ IsDone(r, "createBook") /\ req[r].status = 400
    /\ books # {}

\* C10 as stated: every getBookStats response has
\* readBooks + readingBooks + toReadBooks = totalBooks, also when writes
\* interleave with its count queries.
C10_CountsSumAlways ==
  \A r \in Slots :
    IsDone(r, "getBookStats") =>
      req[r].body.readBooks + req[r].body.readingBooks
        + req[r].body.toReadBooks = req[r].body.totalBooks
\* C10 amended: the counts sum to the total whenever the three earlier counts
\* still describe the collection when the fourth count query runs (as they do
\* when no create, update or delete took effect between the count queries),
\* and the response carries the four counts as queried.
C10_CountsSumWhenQuiet ==
  [][\A r \in Slots :
       /\ (/\ Answers(r, "getBookStats", "countToRead")
           /\ req[r].totalBooks = CountDocuments(books, NoFilter)
           /\ req[r].readBooks = CountDocuments(books, ReadFilter)
           /\ req[r].readingBooks = CountDocuments(books, ReadingFilter))
          => req'[r].readBooks + req'[r].readingBooks + req'[r].toReadBooks
               = req'[r].totalBooks
       /\ Answers(r, "getBookStats", "aggAuthors")
          => /\ req'[r].status = 200
             /\ req'[r].body.totalBooks = req[r].totalBooks
             /\ req'[r].body.readBooks = req[r].readBooks
             /\ req'[r].body.readingBooks = req[r].readingBooks
             /\ req'[r].body.toReadBooks = req[r].toReadBooks]_vars
\* Statistics over a collection holding a read and a to-read book.
C10_Witness ==
  \E r \in Slots :
    /\ IsDone(r, "getBookStats")
    /\ req[r].body.totalBooks = 2
    /\ req[r].body.readBooks = 1 /\ req[r].body.toReadBooks = 1

\* The records of a page, and a listing answered 200.
Range(s) == {s[i] : i \in 1..Len(s)}
Listed(r) == IsDone(r, "getBooks") /\ req[r].status = 200
\* The stored records that satisfy the filter of the parameters p.
Matching(p) == {d \in books : Matches(d, p)}
\* The number of records page pg of a listing of n records holds.
PageSize(n, pg, lim) ==
  LET rest == n - (pg - 1) * lim IN
    IF rest <= 0 THEN 0 ELSE IF rest < lim THEN rest ELSE lim
\* r1 and r2 list two pages of one listing: the same filter, sort, order and
\* limit, both counted and fetched on the collection as it is now.
PagesOfOneListing(r1, r2) ==
  /\ Listed(r1) /\ Listed(r2)
  /\ req[r1].params.page < req[r2].params.page
  /\ [req[r1].params EXCEPT !.page = 0] = [req[r2].params EXCEPT !.page = 0]
  /\ req[r1].body.totalItems = Cardinality(Matching(req[r1].params))
  /\ req[r2].body.totalItems = Cardinality(Matching(req[r2].params))
  /\ Range(req[r1].body.data) \cup Range(req[r2].body.data) \subseteq books
InOrder(p, d1, d2) ==
  IF p.order = "asc" THEN SortKey(d1, p.sort) <= SortKey(d2, p.sort)
  ELSE SortKey(d1, p.sort) >= SortKey(d2, p.sort)

\* C11: for an unchanged collection, two pages of one listing share no
\* record, every record of the earlier page sorts no later than every record
\* of the later page, each page is sorted, and page k holds
\* min(limit, max(0, totalItems - (k-1)*limit)) records, so that the pages
\* 1..totalPages partition the matching records in sorted order.
C11_PagesPartition ==
  \A r1, r2 \in Slots :
    PagesOfOneListing(r1, r2) =>
      LET p == req[r1].params
          d1 == req[r1].body.data
          d2 == req[r2].body.data
      IN /\ Range(d1) \cap Range(d2) = {}
         /\ \A x \in Range(d1), y \in Range(d2) : InOrder(p, x, y)
         /\ \A s \in {d1, d2} : \A i \in 1..(Len(s) - 1) : InOrder(p, s[i], s[i + 1])
         /\ Len(d1) = PageSize(req[r1].body.totalItems, p.page, p.limit)
         /\ Len(d2) =
              PageSize(req[r2].body.totalItems, req[r2].params.page, p.limit)

\* What the claims require of a record for the supplied parameters p.
OnShelf(d, p) == d.exclusiveShelf = p.shelf
RatingWithin(d, p) ==
  /\ "minRating" \in DOMAIN p => p.minRating <= d.rating
  /\ "maxRating" \in DOMAIN p => d.rating <= p.maxRating
DateReadWithin(d, p) ==
  /\ "startDate" \in DOMAIN p =>
       ("dateRead" \in DOMAIN d /\ p.startDate <= d.dateRead)
  /\ "endDate" \in DOMAIN p =>
       ("dateRead" \in DOMAIN d /\ d.dateRead <= p.endDate)
ShelfSupplied(p) == "shelf" \in DOMAIN p /\ p.shelf # ""
RangeSupplied(p) ==
  {"minRating", "maxRating", "startDate", "endDate"} \cap DOMAIN p # {}

\* C12: with a shelf supplied, the count query yields the number of stored
\* records on that shelf that also satisfy the supplied rating and date
\* ranges, the response reports that number as totalItems, and every record
\* of the response is on that shelf.
C12_ShelfEquality ==
  [][\A r \in Slots :
       /\ (Answers(r, "getBooks", "count") /\ ShelfSupplied(req[r].params)
             /\ req'[r].pc = "find")
          => req'[r].total =
               Cardinality({d \in books :
                              /\ OnShelf(d, req[r].params)
                              /\ RatingWithin(d, req[r].params)
                              /\ DateReadWithin(d, req[r].params)})
       /\ (Answers(r, "getBooks", "find") /\ ShelfSupplied(req[r].params))
          => /\ req'[r].status = 200
             /\ req'[r].body.totalItems = req[r].total
             /\ \A d \in Range(req'[r].body.data) :
                  d \in books /\ OnShelf(d, req[r].params)]_vars
\* A listing of shelf read with minRating 5 returned Emma alone while
\* Ulysses, read and rated 3, is stored.
C12_Witness ==
  \E r \in Slots :
    /\ Listed(r) /\ ShelfSupplied(req[r].params)
    /\ "minRating" \in DOMAIN req[r].params
    /\ req[r].body.totalItems = 1
    /\ req[r].body.data = <<LibEmma>>
    /\ LibUlysses \in books

\* C13: the rating and date-read filters are inclusive ranges. With a range
\* supplied and no shelf, the count query yields the number of stored records
\* with minRating <= rating <= maxRating and startDate <= dateRead <= endDate
\* (each bound constraining only when supplied, minRating 0 included), and a
\* response whose first page has room for all of them holds exactly those
\* records.
C13_InclusiveRanges ==
  [][\A r \in Slots :
       /\ (Answers(r, "getBooks", "count") /\ RangeSupplied(req[r].params)
             /\ ~ShelfSupplied(req[r].params) /\ req'[r].pc = "find")
          => req'[r].total =
               Cardinality({d \in books :
                              /\ RatingWithin(d, req[r].params)
                              /\ DateReadWithin(d, req[r].params)})
       /\ (Answers(r, "getBooks", "find") /\ RangeSupplied(req[r].params)
             /\ ~ShelfSupplied(req[r].params) /\ req[r].params.page = 1
             /\ Cardinality(books) <= req[r].params.limit)
          => Range(req'[r].body.data) =
               {d \in books :
                  /\ RatingWithin(d, req[r].params)
                  /\ DateReadWithin(d, req[r].params)}]_vars
\* A listing with minRating 3 and maxRating 5 returned Ulysses (rated 3) and
\* Emma (rated 5) and not Dune (unrated); one with endDate 2024-01-02
\* returned Persuasion, read on that day.
C13_Witness ==
  \E r1, r2 \in Slots :
    /\ Listed(r1) /\ LibDune \in books
    /\ {"minRating", "maxRating"} \subseteq DOMAIN req[r1].params
    /\ {LibEmma, LibUlysses} \subseteq Range(req[r1].body.data)
    /\ LibDune \notin Range(req[r1].body.data)
    /\ Listed(r2) /\ DOMAIN req[r2].params \cap {"startDate", "endDate"} = {"endDate"}
    /\ req[r2].params.endDate = 2
    /\ LibPersuasion \in Range(req[r2].body.data)
    /\ LibUlysses \in books /\ LibUlysses \notin Range(req[r2].body.data)

\* The records the supplied shelf, rating and date parameters ask for.
Wanted(p) ==
  {d \in books :
     /\ ShelfSupplied(p) => OnShelf(d, p)
     /\ RatingWithin(d, p)
     /\ DateReadWithin(d, p)}

\* The records matching the whole filter, the search pattern included.
Filtered(p) == {d \in Wanted(p) : SearchMatches(d, p)}

\* C14: list metadata. The count query yields the number of stored records
\* matching the filter; every 200 response reports it as totalItems, has
\* totalPages the least n with n * limit >= totalItems, currentPage the
\* requested page and at most limit records, and exactly
\* min(limit, max(0, totalItems - (page-1)*limit)) records when the matching
\* records are the same at the find query as at the count query.
C14_ListMetadata ==
  [][\A r \in Slots :
       /\ (Answers(r, "getBooks", "count") /\ req'[r].pc = "find")
          => req'[r].total = Cardinality(Filtered(req[r].params))
       /\ Answers(r, "getBooks", "find")
          => LET p == req[r].params
                 b == req'[r].body
             IN /\ req'[r].status = 200
                /\ DOMAIN b = {"data", "totalPages", "currentPage", "totalItems"}
                /\ b.totalItems = req[r].total
                /\ b.totalPages * p.limit >= b.totalItems
                /\ (b.totalPages - 1) * p.limit < b.totalItems
                /\ b.currentPage = p.page
                /\ Len(b.data) <= p.limit
                /\ Cardinality(Filtered(p)) = req[r].total
                     => Len(b.data) = PageSize(b.totalItems, p.page, p.limit)]_vars
\* The second page of three records listed two to a page holds one record.
C14_Witness ==
  \E r \in Slots :
    /\ Listed(r)
    /\ req[r].params.limit = 2 /\ req[r].body.currentPage = 2
    /\ req[r].body.totalItems = 3 /\ req[r].body.totalPages = 2
    /\ Len(req[r].body.data) = 1

\* C15: field invariants of stored books. After every step each stored book
\* has 0 <= rating <= 5, pages >= 0 and exclusiveShelf among read,
\* currently-reading and to-read; a book a createBook stores has pages >= 1,
\* and exclusiveShelf to-read when the creating payload omitted it.
C15_FieldInvariants ==
  [][/\ \A d \in books' :
          /\ d.rating >= 0 /\ d.rating <= 5
          /\ d.pages >= 0
          /\ d.exclusiveShelf \in {"read", "currently-reading", "to-read"}
     /\ \A r \in Slots :
          (Answers(r, "createBook", "save") /\ req'[r].status = 201)
          => /\ req'[r].body \in books'
             /\ req'[r].body.pages >= 1
             /\ "exclusiveShelf" \notin DOMAIN req[r].payload
                  => req'[r].body.exclusiveShelf = "to-read"]_vars
\* Two books are stored after creates and an update: one created without a
\* shelf and still to-read, one rated 5 on shelf read.
C15_Witness ==
  /\ \E d1, d2 \in books :
       /\ d1.exclusiveShelf = "to-read" /\ d1.rating = 0
       /\ d2.exclusiveShelf = "read" /\ d2.rating = 5
  /\ \E r \in Slots : IsDone(r, "updateBook") /\ req[r].status = 200

\* The sum of a field over a set of books, and books by shelf, rating, author.
RECURSIVE Total(_, _)
Total(S, f) ==
  IF S = {} THEN 0
  ELSE LET d == CHOOSE x \in S : TRUE IN Total(S \ {d}, f) + d[f]
ReadBooks == {d \in books : d.exclusiveShelf = "read"}
RatedBooks == {d \in books : d.rating > 0}
BooksBy(a) == {d \in books : d.author = a}

\* C16: statistics over an unchanged collection. totalPagesRead is the sum
\* of pages over the books on shelf read (0 when there are none);
\* averageRating, kept as <<sum, count>>, is the mean over the books with
\* rating > 0 (0 when there are none); topAuthors has at most 5 entries with
\* non-increasing counts, each the number of books by that author, no author
\* twice, and no author left out having more books than one listed.
C16_StatsAggregates ==
  \A r \in Slots :
    IsDone(r, "getBookStats") =>
      LET b == req[r].body
          top == b.topAuthors
      IN /\ b.totalPagesRead = Total(ReadBooks, "pages")
         /\ b.averageRating =
              IF RatedBooks = {} THEN <<0, 1>>
              ELSE <<Total(RatedBooks, "rating"), Cardinality(RatedBooks)>>
         /\ Len(top) <= 5
         /\ Len(top) =
              IF Cardinality({d.author : d \in books}) < 5
                THEN Cardinality({d.author : d \in books}) ELSE 5
         /\ \A i \in 1..Len(top) :
              /\ DOMAIN top[i] = {"author", "count"}
              /\ top[i].count = Cardinality(BooksBy(top[i].author))
              /\ top[i].count > 0
              /\ \A j \in 1..Len(top) :
                   /\ i < j => top[i].count >= top[j].count
                   /\ i # j => top[i].author # top[j].author
         /\ \A d \in books :
              (\A i \in 1..Len(top) : top[i].author # d.author)
                => \A i \in 1..Len(top) :
                     top[i].count >= Cardinality(BooksBy(d.author))
\* Statistics over all seven books: six authors, five of them listed with
\* Austen (two books) first; Hamlet, read but never rated, counts in the
\* pages read and not in the average.
C16_Witness ==
  \E r \in Slots :
    /\ IsDone(r, "getBookStats")
    /\ Cardinality(books) = 7
    /\ Len(req[r].body.topAuthors) = 5
    /\ req[r].body.topAuthors[1] = [author |-> "Austen", count |-> 2]
    /\ req[r].body.totalPagesRead = 13
    /\ req[r].body.averageRating = <<17, 4>>

HandlerKinds ==
  {"getBooks", "getBookById", "createBook", "updateBook", "deleteBook",
   "getBookshelves", "getBookStats"}

\* C17: every response 500 of a book handler, whatever made the database
\* call fail, has the body { message: 'Server error' } and nothing else, and
\* the step that answers 500 leaves the collection unchanged; a database call
\* that throws is answered 500 in every handler.
C17_ServerError ==
  [][\A r \in Slots :
       /\ (req[r].pc \notin {"idle", "done"} /\ req'[r].pc = "done"
             /\ req'[r].status = 500)
          => /\ req[r].kind \in HandlerKinds
             /\ req'[r].kind = req[r].kind
             /\ req'[r].body = [message |-> "Server error"]
             /\ books' = books
       /\ DatabaseThrows(r) => req'[r].pc = "done" /\ req'[r].status = 500]_vars
\* A createBook whose database call threw: answered 500 with nothing stored
\* (no other request ran, so no identifier was taken).
C17_Witness ==
  \E r \in Slots :
    /\ IsDone(r, "createBook") /\ req[r].status = 500
    /\ books = {}

\* The text contains the string s as a literal substring, ignoring case.
ContainsLiteral(text, s) ==
  \E i \in 1..(Len(text) + 1) :
    /\ i + Len(s) - 1 <= Len(text)
    /\ \A k \in 1..Len(s) : Lower(text[i + k - 1]) = Lower(s[k])
SearchSupplied(q) == "search" \in DOMAIN q /\ q.search # <<>>
SearchHit(d, s) ==
  \E f \in {"title", "author", "publisher", "review"} \cap DOMAIN d :
    ContainsLiteral(Chars(d[f]), s)

\* C18: search is a literal, case-insensitive substring match. A getBooks
\* request that passes validation is never answered 500 before its queries
\* run, whatever its search string; and with a search string supplied the
\* count query yields the number of records, among those passing the other
\* filters, whose title, author, publisher or review contains the string.
C18_LiteralSearch ==
  [][\A r \in Slots :
       /\ (req[r].pc = "idle" /\ req'[r].kind = "getBooks"
             /\ req'[r].pc = "done")
          => req'[r].status = 400
       /\ (Answers(r, "getBooks", "count") /\ SearchSupplied(req[r].params)
             /\ req'[r].pc = "find")
          => req'[r].total =
               Cardinality({d \in Wanted(req[r].params) :
                              SearchHit(d, req[r].params.search)})]_vars

\* The cached queries whose data a mutation of the given kind on book id can
\* change: the list, the statistics, the recent books, and the detail of the
\* book that was updated or deleted.
AffectedKeys(kind, id) ==
  {KeyBooks, KeyStats, KeyRecent}
    \cup (IF kind \in {"update", "delete"} THEN {KeyBook(id)} ELSE {})

\* C19: when a create, update or delete mutation succeeds, every cached
\* query it can change is invalidated or removed from the cache in that
\* step; when it fails the cache is left as it is.
C19_InvalidateOnMutation ==
  [][/\ (client.mutation.status = "loading"
           /\ client'.mutation.status = "success")
        => \A k \in AffectedKeys(client.mutation.kind, client.bookId) :
             k \in client.cache.fresh => k \notin client'.cache.fresh
     /\ (client.mutation.status = "loading"
           /\ client'.mutation.status = "error")
        => client'.cache = client.cache]_vars

C21_ServerAssignsId ==
  [][\A r \in Slots :
       (req[r].kind = "createBook" /\ req[r].pc = "save"
          /\ req'[r].pc = "done" /\ req'[r].status = 201)
       => \E d \in books' \ books :
            /\ books' = books \cup {d}
            /\ req'[r].body = d
            /\ books = {} => d.bookId = 1
            /\ books # {} =>
                 /\ \E b \in books : d.bookId = b.bookId + 1
                 /\ \A b \in books : d.bookId > b.bookId
            /\ "bookId" \in DOMAIN req[r].payload
                 => d.title = req[r].payload.title]_vars
\* The body that carried bookId 2 was stored under bookId 1.
C21_Witness ==
  \E r \in Slots :
    /\ req[r].kind = "createBook" /\ req[r].pc = "done" /\ req[r].status = 201
    /\ req[r].body.title = BodyFull.title /\ BodyFull.bookId = 2
    /\ req[r].body.bookId = 1
    /\ req[r].body \in books

\* A deleteBook that answers 200 in this step after removing the document
\* with the largest bookId.
DeletesHighest(r) ==
  /\ req[r].kind = "deleteBook" /\ req[r].pc = "findOneAndDelete"
  /\ req'[r].pc = "done" /\ req'[r].status = 200
  /\ books # {} /\ req[r].bookId = MaxBookId(books)

\* C22 as stated: once the book with the largest bookId is deleted, the
\* identifier the next create reads is always that same bookId.
C22_ReusesDeletedId ==
  [][\A r \in Pair :
       DeletesHighest(r)
         => (IF books' = {} THEN 1 ELSE MaxBookId(books') + 1)
              = req[r].bookId]_vars

\* C22 as the code has it: once the book with the largest bookId m is
\* deleted, m is no longer stored and the identifier a create then reads is
\* one more than the largest remaining bookId (1 when none remains), which is
\* at most m and is m exactly when m = 1 or m - 1 is still stored; a create
\* is assigned the identifier it reads and a successful save stores the book
\* under it; and a lookup by bookId answers with whatever document holds the
\* identifier at that moment.
C22_ReusesFreedId ==
  [][\A r \in Pair :
       /\ DeletesHighest(r)
            => LET m == req[r].bookId
                   next == IF books' = {} THEN 1 ELSE MaxBookId(books') + 1
               IN /\ m \notin StoredIds(books')
                  /\ next <= m
                  /\ next = m <=> (m = 1 \/ m - 1 \in StoredIds(books'))
       /\ (req[r].kind = "createBook" /\ req[r].pc = "findMax"
             /\ req'[r].pc = "save")
            => req'[r].newBook.bookId
                 = (IF books = {} THEN 1 ELSE MaxBookId(books) + 1)
       /\ (req[r].kind = "createBook" /\ req[r].pc = "save"
             /\ req'[r].pc = "done" /\ req'[r].status = 201)
            => /\ req'[r].body = req[r].newBook
               /\ req'[r].body \in books'
       /\ (req[r].kind = "getBookById" /\ req[r].pc = "findOne"
             /\ req'[r].pc = "done" /\ req'[r].status = 200)
            => /\ req'[r].body \in books
               /\ req'[r].body.bookId = req[r].bookId]_vars
\* One client has deleted book 2 and, while it still holds that answer, the
\* other has created a book that is now stored under bookId 2.
C22_Witness ==
  /\ req[2].kind = "deleteBook" /\ req[2].pc = "done" /\ req[2].status = 200
  /\ req[2].bookId = 2
  /\ req[1].kind = "createBook" /\ req[1].pc = "done" /\ req[1].status = 201
  /\ req[1].body.bookId = 2
  /\ req[1].body \in books

ResponseStatuses == {200, 201, 400, 404, 500}
\* A createBook waiting at the identifier the model does not assign.
BeyondMaxId(r) ==
  /\ req[r].kind = "createBook" /\ req[r].pc = "findMax"
  /\ NewBookId(books) > MaxId

\* C23: every request a book handler has taken is answered (never zero
\* responses), the answer carries a status in {200, 201, 400, 404, 500}, and
\* once the answer is sent the handler sends nothing more (never two).
C23_OneResponse ==
  /\ [](\A r \in Slots :
          req[r].pc = "done" => req[r].status \in ResponseStatuses)
  /\ [][\A r \in Slots :
          /\ req[r].pc = "done" => req'[r] \in {req[r], Idle}
          /\ (req[r].pc = "idle" /\ req'[r] # req[r])
               => req'[r].kind \in HandlerKinds]_vars
  /\ \A r \in {1} :
       (req[r].pc \notin {"idle", "done"} /\ ~BeyondMaxId(r))
         ~> (req[r].pc = "done")
\* deleteBook has answered 500: the path through its catch block.
C23_Witness ==
  /\ req[1].kind = "deleteBook" /\ req[1].pc = "done" /\ req[1].status = 500

\* C24: a getBooks request whose startDate or endDate is not a valid date is
\* refused by the validation: it never reaches the database, and its answer
\* is 400.
C24_BadDateIs400 ==
  [][\A r \in Pair :
       /\ (req[r].pc = "idle" /\ req'[r].kind = "getBooks"
             /\ req'[r].pc # "done")
            => FilterCastOk(req'[r].params)
       /\ (req[r].kind = "getBooks" /\ req[r].pc \in {"count", "find"}
             /\ ~FilterCastOk(req[r].params) /\ req'[r].pc = "done")
            => req'[r].status = 400]_vars

IsPage(e) == "page" \in DOMAIN e
\* The page numbers of a list, in the order listed.
PageNumbersOf(list) ==
  LET pages == SelectSeq(list, IsPage)
  IN [i \in 1..Len(pages) |-> pages[i].page]

\* C25: the list shown for totalPages > 1 and currentPage in 1..totalPages
\* has strictly increasing page numbers within 1..totalPages that include 1,
\* currentPage and totalPages and number at most the window size plus 2; two
\* neighbouring numbers are consecutive, and a marker stands only between
\* two numbers that differ by more than 1.
C25_PageNumbers ==
  "pagination" \in DOMAIN client =>
    LET p == client.pagination
        list == p.pageNumbers
        nums == PageNumbersOf(list)
        listed == {nums[i] : i \in 1..Len(nums)}
    IN /\ p.totalPages > 1 /\ p.currentPage \in 1..p.totalPages
       /\ \A i \in 1..(Len(nums) - 1) : nums[i] < nums[i + 1]
       /\ listed \subseteq 1..p.totalPages
       /\ {1, p.currentPage, p.totalPages} \subseteq listed
       /\ Len(nums) <= VisiblePages(p.isMobile) + 2
       /\ \A i \in 1..Len(list) :
            ~IsPage(list[i]) =>
              /\ i > 1 /\ i < Len(list)
              /\ IsPage(list[i - 1]) /\ IsPage(list[i + 1])
              /\ list[i + 1].page - list[i - 1].page > 1
       /\ \A i \in 1..(Len(list) - 1) :
            (IsPage(list[i]) /\ IsPage(list[i + 1]))
              => list[i + 1].page = list[i].page + 1
\* Page 6 of 12 on a wide window: 1, marker, 4 to 8, marker, 12.
C25_Witness ==
  /\ "pagination" \in DOMAIN client
  /\ client.pagination.currentPage = 6 /\ client.pagination.totalPages = 12
  /\ ~client.pagination.isMobile
  /\ client.pagination.pageNumbers =
       <<PageEntry(1), EllipsisStart>> \o PageRun(4, 8)
         \o <<EllipsisEnd, PageEntry(12)>>

\* The filters other than the named ones are the same before and after.
OthersKept(names) ==
  /\ DOMAIN client'.filters \ names = DOMAIN client.filters \ names
  /\ \A f \in DOMAIN client.filters \ names :
       client'.filters[f] = client.filters[f]

\* C26: handleFilterChange, handleSortChange and clearFilters leave page 1;
\* handleFilterChange sets the named filter and keeps the others;
\* handlePageChange sets page and keeps every other filter; handleSortChange
\* sets sort to the field and order to asc exactly when that field was
\* already sorted desc, desc otherwise, and keeps the others.
C26_FilterHandlers ==
  [][/\ \A inp \in FilterInputs :
          HandleFilterChange(inp[1], inp[2])
            => /\ client'.filters.page = JsNumber(1)
               /\ client'.filters[inp[1]] = inp[2]
               /\ OthersKept({inp[1], "page"})
     /\ \A field \in SortFields :
          HandleSortChange(field)
            => /\ client'.filters.page = JsNumber(1)
               /\ client'.filters.sort = JsString(field)
               /\ client'.filters.order = JsString("asc")
                    <=> (/\ client.filters.sort = JsString(field)
                         /\ client.filters.order = JsString("desc"))
               /\ client'.filters.order \in {JsString("asc"), JsString("desc")}
               /\ OthersKept({"sort", "order", "page"})
     /\ ClearFilters => client'.filters.page = JsNumber(1)
     /\ \A page \in ListPages :
          HandlePageChange(page)
            => /\ client'.filters.page = JsNumber(page)
               /\ OthersKept({"page"})]_vars
\* On page 1 of the read shelf sorted by title ascending: the shelf was
\* chosen and the title header clicked twice.
C26_Witness ==
  /\ "filters" \in DOMAIN client
  /\ "shelf" \in DOMAIN client.filters
  /\ client.filters.shelf = JsString("read")
  /\ client.filters.sort = JsString("title")
  /\ client.filters.order = JsString("asc")
  /\ client.filters.page = JsNumber(1)

\* C27: createBook never answers 400 to a body that BookForm submitted after
\* its own validation passed.
C27_FormRefinesSchema ==
  \A r \in Slots :
    (req[r].kind = "createBook" /\ req[r].pc = "done"
       /\ client.mutation.kind = "create")
      => req[r].status # 400

\* The migrations a migrate run has chosen that lie before (after) the one
\* it is working on.
PlanBefore(run) == {run.plan[k] : k \in 1..(run.i - 1)}
PlanFrom(run) == {run.plan[k] : k \in run.i..Len(run.plan)}

\* C28: migrate chooses exactly the registered versions that are not
\* recorded (up to the target when one is given), in ascending order; it
\* records a version only after the up step of that version completed, one
\* version at a time in the chosen order; when a step throws the run stops
\* with the earlier versions recorded and the failed one not; when it
\* returns every chosen version is recorded; and with every registered
\* version recorded it chooses none and records nothing.
C28_MigrateApplies ==
  /\ [](migrations.run.op = "migrate" =>
          /\ PlanBefore(migrations.run) \subseteq migrations.applied
          /\ PlanFrom(migrations.run) \cap migrations.applied = {}
          /\ migrations.run.pc = "insertOne" =>
               migrations.run.plan[migrations.run.i] \in migrations.schema)
  /\ [][LET m == migrations
            n == migrations'
        IN /\ (m.run.op = "none" /\ n.run.op = "migrate") =>
                /\ ElementsOf(n.run.plan) =
                     {v \in ElementsOf(m.registered) :
                        /\ v \notin m.applied
                        /\ n.run.target # NoTarget => v <= n.run.target[1]}
                /\ \A i, j \in 1..Len(n.run.plan) :
                     i < j => n.run.plan[i] < n.run.plan[j]
                /\ n.run.i = 1 /\ n.applied = m.applied
                /\ ElementsOf(m.registered) \subseteq m.applied
                     => (n.run.plan = <<>> /\ n.run.pc = "ended")
           /\ (m.run.op = "migrate" /\ n.applied # m.applied) =>
                /\ m.run.pc = "insertOne"
                /\ n.applied = m.applied \cup {m.run.plan[m.run.i]}
                /\ m.run.plan[m.run.i] \in m.schema
           /\ (m.run.op = "migrate" /\ m.run.pc # "ended"
                 /\ n.run.op = "migrate" /\ n.run.pc = "ended") =>
                IF n.run.result = "thrown"
                  THEN /\ n.applied = m.applied
                       /\ m.run.plan[m.run.i] \notin n.applied
                  ELSE ElementsOf(n.run.plan) \subseteq n.applied
           /\ (m.run.op = "migrate" /\ m.run.pc = "ended") =>
                n.applied = m.applied]_vars
\* Version 2 was recorded by an earlier run; this run has applied 1 and 3,
\* in that order, and returned.
C28_Witness ==
  /\ migrations.run.op = "migrate" /\ migrations.run.pc = "ended"
  /\ migrations.run.result = "returned"
  /\ migrations.run.plan = <<1, 3>>
  /\ migrations.applied = {1, 2, 3}

\* C29: rollback(steps) chooses min(steps, number of recorded versions)
\* versions, the highest recorded ones, in descending order (none for
\* steps = 0), and deletes the record of a version only after the down step
\* of that version completed.
C29_RollbackLastSteps ==
  [][LET m == migrations
         n == migrations'
     IN /\ (m.run.op = "none" /\ n.run.op = "rollback") =>
             /\ Len(n.run.plan) = Min(n.run.steps, Cardinality(m.applied))
             /\ \A i, j \in 1..Len(n.run.plan) :
                  i < j => n.run.plan[i] > n.run.plan[j]
             /\ ElementsOf(n.run.plan) \subseteq m.applied
             /\ \A v \in m.applied \ ElementsOf(n.run.plan) :
                  \A w \in ElementsOf(n.run.plan) : v < w
             /\ n.applied = m.applied
        /\ (m.run.op = "rollback" /\ n.applied # m.applied) =>
             /\ m.run.pc = "deleteOne"
             /\ n.applied = m.applied \ {m.run.plan[m.run.i]}
             /\ m.run.plan[m.run.i] \notin m.schema]_vars

\* C30: an importBooks invocation that started a transaction has committed
\* or aborted it by the time the session is ended, whatever it responds (the
\* 400 responses included): committed goes with 200 and results where failed
\* plus the number of validated books is the number submitted, aborted goes
\* with 500, and a step that ends in an abort writes no book.
ImportEnded(r) ==
  /\ req[r].kind = "importBooks" /\ req[r].pc = "done"
ImportClosed(r) ==
  /\ req[r].session.transaction \in {"committed", "aborted"}
  /\ req[r].session.transaction = "committed" =>
       /\ req[r].status = 200
       /\ req[r].body.results.failed + req[r].validatedCount = req[r].submitted
  /\ req[r].session.transaction = "aborted" => req[r].status = 500
C30_TransactionClosed ==
  /\ [](\A r \in Slots : ImportEnded(r) => ImportClosed(r))
  /\ [][\A r \in Slots :
          (ImportEnded(r)' /\ ~ImportEnded(r)
             /\ req'[r].session.transaction = "aborted") => books' = books]_vars
====
